---- MODULE Spec2Model ----
(***************************************************************************)
(* The automation engine of src/components/AutomationPage.tsx:             *)
(* processAutomations (rule matching and dispatch), executeAction (action  *)
(* dispatch, validation, failure isolation), replacePlaceholders, and the  *)
(* host's timers and promises they run on; and the rule editor of          *)
(* src/components/AutomationEditor.tsx.                                    *)
(*                                                                         *)
(* Conventions.  Money is counted in cents (499.99 is 49999).  An optional *)
(* number that is absent is UndefNum, an optional identifier or address    *)
(* that is absent is Undefined.  A text that goes through placeholder      *)
(* substitution is a sequence of pieces, "[" and "]" being pieces of their *)
(* own; undefined and '' are both <<>>, the code only ever tests such a    *)
(* text for truthiness.  Time is in ticks of 32 ms.                        *)
(***************************************************************************)
EXTENDS Integers, Sequences, FiniteSets, TLC

VARIABLES
  automations,   \* allAutomations: the rule list handed to processAutomations
  calls,         \* the processAutomations calls made so far, with their arguments
  trace,         \* what the engine did, in program order
  timers,        \* the host's pending setTimeout callbacks
  awaiting,      \* executeAction activations suspended at an await
  now,           \* the wall clock, in ticks
  editor,        \* AutomationEditor: whether it is shown, and its automation state
  onSaveCalls,   \* the automations the editor handed to onSave, in order
  ownerCalls     \* handleSave's calls of onUpdateAutomation and onAddAutomation

vars == <<automations, calls, trace, timers, awaiting, now, editor, onSaveCalls,
          ownerCalls>>

-----------------------------------------------------------------------------
(* Values *)

Undefined == "undefined"
UndefNum == -1

TriggerTypes ==
  {"new_customer", "job_status_updated", "job_created", "task_completed",
   "invoice_overdue", "scheduled_time", "inventory_low"}

ActionTypes ==
  {"webhook", "create_task", "add_to_schedule", "send_email", "update_inventory",
   "send_sms", "update_job_status", "assign_team", "create_invoice"}

EmptyTriggerConfig ==
  [to_status |-> Undefined, from_status |-> Undefined,
   job_value_min |-> UndefNum, job_value_max |-> UndefNum,
   time |-> Undefined, days_overdue |-> UndefNum,
   stock_threshold |-> UndefNum, item_name |-> Undefined]

EmptyActionConfig ==
  [url |-> Undefined, task_title |-> <<>>, task_description |-> <<>>,
   email_subject |-> <<>>, email_body |-> <<>>, email_recipient |-> Undefined,
   custom_email |-> Undefined, new_status |-> Undefined,
   delay_minutes |-> UndefNum]

EMPTY_AUTOMATION ==
  [name |-> "", is_enabled |-> TRUE,
   trigger_type |-> "new_customer", trigger_config |-> EmptyTriggerConfig,
   action_type |-> "create_task", action_config |-> EmptyActionConfig]

\* The payload: undefined/null, or a customer or job/estimate record.
NoData ==
  [defined |-> FALSE, status |-> Undefined, finalQuote |-> UndefNum,
   hasEstimateNumber |-> FALSE, estimateNumber |-> <<>>,
   hasCustomer |-> FALSE, customer_name |-> <<>>, customer_address |-> <<>>,
   customer_email |-> Undefined,
   name |-> <<>>, address |-> <<>>, email |-> Undefined]

EmptyRecord == [NoData EXCEPT !.defined = TRUE]

\* A plausible slip: a bound is tested for presence (!== undefined), so
\* that a bound of 0 counts as configured.
TruthyNumIfDefined(n) == n # UndefNum

\* JavaScript truthiness of an optional number (NaN is not modelled).
TruthyNum(n) == n # UndefNum /\ n # 0

\* JavaScript truthiness of an optional identifier, address or URL.
TruthyStr(s) == s # Undefined /\ s # ""

-----------------------------------------------------------------------------
(* processAutomations: the condition check of one rule *)

\* job.costsData?.finalQuote || 0
JobValueOr0(data) == IF TruthyNum(data.finalQuote) THEN data.finalQuote ELSE 0

\* A plausible slip: <= for <, which makes the minimum exclusive.
BelowMinExclusive(cfg, data) ==
  TruthyNum(cfg.job_value_min) /\ JobValueOr0(data) <= cfg.job_value_min

\* if (job_value_min) { ... if (jobValue < job_value_min) shouldRun = false }
BelowMin(cfg, data) ==
  TruthyNum(cfg.job_value_min) /\ JobValueOr0(data) < cfg.job_value_min

\* if (job_value_max) { ... if (jobValue > job_value_max) shouldRun = false }
AboveMax(cfg, data) ==
  TruthyNum(cfg.job_value_max) /\ JobValueOr0(data) > cfg.job_value_max

\* The job_created branch: "run", "skip", or "TypeError" when job.costsData
\* is read off an undefined payload.
JobCreatedCheck(cfg, data) ==
  IF ~data.defined /\ (TruthyNum(cfg.job_value_min) \/ TruthyNum(cfg.job_value_max))
  THEN "TypeError"
  ELSE IF BelowMin(cfg, data) \/ AboveMax(cfg, data) THEN "skip" ELSE "run"

\* A plausible slip: the from_status branch compares from_status with the
\* record's status instead of just running.
StatusMatchesFromChecked(cfg, data) ==
  /\ data.status = cfg.to_status
  /\ IF TruthyStr(cfg.from_status) THEN data.status = cfg.from_status ELSE TRUE

\* job.status === to_status; the from_status branch and its else both set
\* shouldRun = true.
StatusMatches(cfg, data) ==
  /\ data.status = cfg.to_status
  /\ IF TruthyStr(cfg.from_status) THEN TRUE ELSE TRUE

\* A plausible slip: the status decides alone, the job value bounds are
\* left to job_created.
JobStatusUpdatedCheckStatusOnly(cfg, data) ==
  IF ~data.defined THEN "TypeError"
  ELSE IF ~StatusMatches(cfg, data) THEN "skip" ELSE "run"

\* The job_status_updated branch; job.status is read first.
JobStatusUpdatedCheck(cfg, data) ==
  IF ~data.defined THEN "TypeError"
  ELSE IF ~StatusMatches(cfg, data) THEN "skip"
  ELSE IF BelowMin(cfg, data) \/ AboveMax(cfg, data) THEN "skip" ELSE "run"

\* A plausible slip: the job value bounds are checked for every kind but
\* new_customer, not only for the two job kinds.
ShouldRunBoundsEverywhere(automation, triggerType, data) ==
  CASE triggerType = "new_customer" -> "run"
    [] triggerType = "job_status_updated" ->
         JobStatusUpdatedCheck(automation.trigger_config, data)
    [] OTHER -> JobCreatedCheck(automation.trigger_config, data)

\* The if/else-if chain over triggerType that sets shouldRun.
ShouldRun(automation, triggerType, data) ==
  CASE triggerType = "new_customer" -> "run"
    [] triggerType = "job_created" ->
         JobCreatedCheck(automation.trigger_config, data)
    [] triggerType = "job_status_updated" ->
         JobStatusUpdatedCheck(automation.trigger_config, data)
    [] triggerType = "task_completed" -> "run"
    [] triggerType = "invoice_overdue" -> "run"
    [] triggerType = "scheduled_time" -> "run"
    [] triggerType = "inventory_low" -> "run"
    [] OTHER -> "skip"

\* allAutomations.filter(a => a.is_enabled && a.trigger_type === triggerType),
\* as the positions kept, in order.
RECURSIVE FilterFrom(_, _, _)
FilterFrom(all, triggerType, i) ==
  IF i > Len(all) THEN <<>>
  ELSE (IF all[i].is_enabled /\ all[i].trigger_type = triggerType
        THEN <<i>> ELSE <<>>) \o FilterFrom(all, triggerType, i + 1)

\* A plausible slip: the matching rules are taken newest first.
AutomationsToRunNewestFirst(all, triggerType) ==
  LET kept == FilterFrom(all, triggerType, 1)
  IN  [k \in 1..Len(kept) |-> kept[Len(kept) + 1 - k]]

AutomationsToRun(all, triggerType) == FilterFrom(all, triggerType, 1)

-----------------------------------------------------------------------------
(* replacePlaceholders *)

\* A text is a sequence of pieces: "[" and "]" are pieces of their own, so
\* that a token is the three pieces "[", its name, "]" wherever they come to
\* stand side by side; no other piece contains a bracket.
Tokens == <<"customer_name", "customer_address", "job_number", "job_value">>

Token(name) == <<"[", name, "]">>

\* data.calcData?.customer?.name || data.name || ''
CustomerNameOf(data) ==
  IF data.customer_name # <<>> THEN data.customer_name ELSE data.name

\* data.calcData?.customer?.address || data.address || ''
CustomerAddressOf(data) ==
  IF data.customer_address # <<>> THEN data.customer_address ELSE data.address

\* data.estimateNumber || ''
JobNumberOf(data) == data.estimateNumber

\* Number.prototype.toFixed(2) of an amount held in cents.
ToFixed2(cents) ==
  LET c == cents % 100
  IN  ToString(cents \div 100) \o "." \o (IF c < 10 THEN "0" ELSE "") \o ToString(c)

\* data.costsData?.finalQuote?.toFixed(2) || ''
JobValueOf(data) ==
  IF data.finalQuote = UndefNum THEN <<>> ELSE <<ToFixed2(data.finalQuote)>>

\* String.prototype.replace reads a string replacement as a pattern: $& is
\* the matched text and $$ a dollar sign.
RECURSIVE Expand(_, _)
Expand(value, token) ==
  IF value = <<>> THEN <<>>
  ELSE (IF Head(value) = "$&" THEN Token(token)
        ELSE IF Head(value) = "$$" THEN <<"$">>
        ELSE <<Head(value)>>)
         \o Expand(Tail(value), token)

\* result.replace(/\[token\]/g, value): one pass, left to right, the text
\* put in is not scanned again by this pass.
RECURSIVE ReplaceAll(_, _, _)
ReplaceAll(text, token, value) ==
  IF text = <<>> THEN <<>>
  ELSE IF Len(text) >= 3 /\ SubSeq(text, 1, 3) = Token(token)
  THEN Expand(value, token) \o ReplaceAll(SubSeq(text, 4, Len(text)), token, value)
  ELSE <<Head(text)>> \o ReplaceAll(Tail(text), token, value)

\* The four replace calls, in the order of the source.
ReplaceFour(text, data) ==
  LET r1 == ReplaceAll(text, Tokens[1], CustomerNameOf(data))
      r2 == ReplaceAll(r1, Tokens[2], CustomerAddressOf(data))
      r3 == ReplaceAll(r2, Tokens[3], JobNumberOf(data))
  IN  ReplaceAll(r3, Tokens[4], JobValueOf(data))

\* replacePlaceholders: '' for an empty text, whatever the data; otherwise
\* data.calcData is read, a TypeError when data is undefined.
replacePlaceholders(text, data) ==
  IF text = <<>> THEN [threw |-> FALSE, text |-> <<>>]
  ELSE IF ~data.defined THEN [threw |-> TRUE, text |-> <<>>]
  ELSE [threw |-> FALSE, text |-> ReplaceFour(text, data)]

-----------------------------------------------------------------------------
(* The host: timers *)

\* Time is counted in ticks of 32 ms, the largest unit that divides both a
\* minute (60 * 1000 ms, 1875 ticks) and the timer's 2^32 ms wrap, so that
\* delay_minutes * 60 * 1000 and its conversion to a signed 32-bit number of
\* milliseconds are exact and stay within the checker's integers.
TicksPerMinute == (60 * 1000) \div 32

\* setTimeout's delay is a WebIDL long: the number of milliseconds is taken
\* modulo 2^32 into [-2^31, 2^31 - 1], and a negative delay counts as 0.
HostDelay(ticks) ==
  LET w == ticks % (2^27)
      s == IF w >= 2^26 THEN w - 2^27 ELSE w
  IN  IF s < 0 THEN 0 ELSE s

\* automation.action_config.delay_minutes * 60 * 1000, in ticks.
DelayTicks(automation) == automation.action_config.delay_minutes * TicksPerMinute

\* A plausible slip: only an absent delay_minutes runs the action at once,
\* a delay of 0 goes through setTimeout.
IsDelayedUnlessAbsent(automation) ==
  /\ automation.action_config.delay_minutes # UndefNum
  /\ automation.action_config.delay_minutes >= 0

\* delay_minutes && delay_minutes > 0
IsDelayed(automation) ==
  /\ TruthyNum(automation.action_config.delay_minutes)
  /\ automation.action_config.delay_minutes > 0

-----------------------------------------------------------------------------
(* The trace *)

\* One thing that happened, in program order: a console line ("log", "warn",
\* "error"), a handler or fetch call ("invoke") and what came of it
\* ("outcome": threw, returned, resolved, rejected), a setTimeout call
\* ("arm"), a timer callback starting ("fire"), and the end of a
\* processAutomations call ("return", or "throw" when an exception leaves
\* it).  ev is the number of the processAutomations call it belongs to, idx
\* the rule's position in that call's allAutomations (0 for a return; for
\* a throw, the rule whose condition check raised it).
Entry(kind, ev, idx, what, args, ticks) ==
  [kind |-> kind, ev |-> ev, idx |-> idx, what |-> what, args |-> args,
   ticks |-> ticks, at |-> now]

Nothing == [trace |-> <<>>, awaiting |-> {}, timers |-> {}]

Did(entries) == [Nothing EXCEPT !.trace = entries]

\* The outer catch of executeAction.
FailedToExecute(ev, idx) ==
  Did(<<Entry("error", ev, idx, "failed_to_execute", <<>>, 0)>>)

\* A plausible slip: a handler that throws is called a second time before
\* the failure is reported.
AwaitCallRetrying(ev, idx, handler, args, beh, caught) ==
  LET call == Entry("invoke", ev, idx, handler, args, 0)
      threw == Entry("outcome", ev, idx, "threw", <<>>, 0)
  IN  IF beh = "throw"
      THEN [trace |-> <<call, threw, call, threw,
                        Entry("error", ev, idx, caught, <<>>, 0)>>,
            awaiting |-> {}, timers |-> {}]
      ELSE [trace |-> <<call>>,
            awaiting |-> {[ev |-> ev, idx |-> idx, handler |-> handler]},
            timers |-> {}]

\* await handler(args): the call is made at once; a handler that throws
\* lands in the enclosing catch, otherwise the activation is suspended until
\* the promise settles.
AwaitCall(ev, idx, handler, args, beh, caught) ==
  LET call == Entry("invoke", ev, idx, handler, args, 0)
  IN  IF beh = "throw"
      THEN Did(<<call, Entry("outcome", ev, idx, "threw", <<>>, 0),
                 Entry("error", ev, idx, caught, <<>>, 0)>>)
      ELSE [Nothing EXCEPT !.trace = <<call>>,
                           !.awaiting = {[ev |-> ev, idx |-> idx, handler |-> handler]}]

-----------------------------------------------------------------------------
(* executeAction, up to its first await.  beh is what the handler does when *)
(* called: "throw" (it throws synchronously) or "ok" (a synchronous handler *)
(* returns, an asynchronous one hands back a promise).                      *)

\* case 'webhook': fetch inside its own try/catch; nothing at all without url.
Webhook(automation, ev, idx, data, beh) ==
  IF TruthyStr(automation.action_config.url)
  THEN AwaitCall(ev, idx, "fetch", << <<automation.action_config.url>> >>, beh,
                 "webhook_failed")
  ELSE Nothing

\* case 'create_task': the configured title is tested, then both texts are
\* substituted, then the handler is called.
CreateTask(automation, ev, idx, data, beh) ==
  LET cfg == automation.action_config
      title == replacePlaceholders(cfg.task_title, data)
      description == replacePlaceholders(cfg.task_description, data)
  IN  IF cfg.task_title = <<>> THEN Nothing
      ELSE IF title.threw \/ description.threw THEN FailedToExecute(ev, idx)
      ELSE AwaitCall(ev, idx, "createTask", <<title.text, description.text>>, beh,
                     "failed_to_execute")

\* case 'add_to_schedule': only for a payload with calcData.customer; the
\* handler is synchronous.
AddToSchedule(automation, ev, idx, data, beh) ==
  LET jobName == replacePlaceholders(Token("customer_name") \o <<" - ">> \o Token("job_number"),
                                    data)
      call == Entry("invoke", ev, idx, "addToSchedule", <<jobName.text>>, 0)
  IN  IF ~(data.defined /\ data.hasCustomer) THEN Nothing
      ELSE IF beh = "throw"
      THEN Did(<<call, Entry("outcome", ev, idx, "threw", <<>>, 0),
                 Entry("error", ev, idx, "failed_to_execute", <<>>, 0)>>)
      ELSE Did(<<call, Entry("outcome", ev, idx, "returned", <<>>, 0),
                 Entry("log", ev, idx, "job_added", <<jobName.text>>, 0)>>)

\* A plausible slip: a rule set to 'custom' without an address falls back
\* to the customer's.
EmailRecipientOrCustomer(cfg, data) ==
  IF cfg.email_recipient = "team"
  THEN [threw |-> FALSE, to |-> "team@example.com"]
  ELSE IF cfg.email_recipient = "custom" /\ TruthyStr(cfg.custom_email)
  THEN [threw |-> FALSE, to |-> cfg.custom_email]
  ELSE IF ~data.defined THEN [threw |-> TRUE, to |-> ""]
  ELSE [threw |-> FALSE,
        to |-> IF TruthyStr(data.customer_email) THEN data.customer_email
               ELSE data.email]

\* The recipient of case 'send_email'; reading calcData off an undefined
\* payload is a TypeError.
EmailRecipient(cfg, data) ==
  IF cfg.email_recipient = "custom"
  THEN [threw |-> FALSE,
        to |-> IF TruthyStr(cfg.custom_email) THEN cfg.custom_email ELSE ""]
  ELSE IF cfg.email_recipient = "team"
  THEN [threw |-> FALSE, to |-> "team@example.com"]
  ELSE IF ~data.defined THEN [threw |-> TRUE, to |-> ""]
  ELSE [threw |-> FALSE,
        to |-> IF TruthyStr(data.customer_email) THEN data.customer_email
               ELSE data.email]

\* case 'send_email'
SendEmail(automation, ev, idx, data, beh) ==
  LET cfg == automation.action_config
      recipient == EmailRecipient(cfg, data)
      subject == replacePlaceholders(cfg.email_subject, data)
      body == replacePlaceholders(cfg.email_body, data)
  IN  IF recipient.threw THEN FailedToExecute(ev, idx)
      ELSE IF TruthyStr(recipient.to) /\ cfg.email_subject # <<>>
      THEN IF subject.threw \/ body.threw THEN FailedToExecute(ev, idx)
           ELSE AwaitCall(ev, idx, "sendEmail",
                          << <<recipient.to>>, subject.text, body.text >>, beh,
                          "failed_to_execute")
      ELSE Did(<<Entry("warn", ev, idx, "skipped_no_email_recipient", <<>>, 0)>>)

\* A plausible slip: the cases without a handler fall through in silence.
NotImplementedSilently(automation, ev, idx, data, beh) == Nothing

\* cases 'send_sms', 'update_job_status', 'assign_team', 'create_invoice':
\* one console.log each, no handler.
NotImplemented(automation, ev, idx, data, beh) ==
  Did(<<Entry("log", ev, idx, automation.action_type \o "_not_implemented", <<>>, 0)>>)

\* case 'update_inventory': 'estimateNumber' in data is a TypeError for an
\* undefined payload.
UpdateInventory(automation, ev, idx, data, beh) ==
  IF ~data.defined THEN FailedToExecute(ev, idx)
  ELSE IF data.hasEstimateNumber
  THEN AwaitCall(ev, idx, "deductInventoryForJob", <<>>, beh, "failed_to_execute")
  ELSE Did(<<Entry("warn", ev, idx, "skipped_not_a_job", <<>>, 0)>>)

\* The switch over action_type.
ExecuteAction(automation, ev, idx, data, beh) ==
  CASE automation.action_type = "webhook" -> Webhook(automation, ev, idx, data, beh)
    [] automation.action_type = "create_task" -> CreateTask(automation, ev, idx, data, beh)
    [] automation.action_type = "add_to_schedule" ->
         AddToSchedule(automation, ev, idx, data, beh)
    [] automation.action_type = "send_email" -> SendEmail(automation, ev, idx, data, beh)
    [] automation.action_type \in
         {"send_sms", "update_job_status", "assign_team", "create_invoice"} ->
         NotImplemented(automation, ev, idx, data, beh)
    [] automation.action_type = "update_inventory" ->
         UpdateInventory(automation, ev, idx, data, beh)
    [] OTHER -> Nothing

\* What the rest of executeAction prints once the awaited promise settles.
Continuation(w, outcome) ==
  IF outcome = "resolve"
  THEN Entry("log", w.ev, w.idx,
             CASE w.handler = "fetch" -> "webhook_sent"
               [] w.handler = "createTask" -> "task_created"
               [] w.handler = "sendEmail" -> "email_sent"
               [] OTHER -> "inventory_updated",
             <<>>, 0)
  ELSE Entry("error", w.ev, w.idx,
             IF w.handler = "fetch" THEN "webhook_failed" ELSE "failed_to_execute",
             <<>>, 0)

-----------------------------------------------------------------------------
(* processAutomations *)

Join(a, b) ==
  [trace |-> a.trace \o b.trace, awaiting |-> a.awaiting \cup b.awaiting,
   timers |-> a.timers \cup b.timers]

\* A plausible slip: the delay is waited out inside the loop, and the action
\* of a delayed rule runs before the loop goes on.
DispatchBlocking(automation, ev, idx, data, beh) ==
  LET running == Did(<<Entry("log", ev, idx, "running", <<>>, 0)>>)
  IN  IF IsDelayed(automation)
      THEN Join(running,
             Join(Did(<<Entry("arm", ev, idx, "setTimeout", <<>>,
                              DelayTicks(automation)),
                        Entry("fire", ev, idx, "timer", <<>>, 0)>>),
                  ExecuteAction(automation, ev, idx, data, beh)))
      ELSE Join(running, ExecuteAction(automation, ev, idx, data, beh))

\* if (shouldRun) { console.log(Running ...); setTimeout or executeAction }
Dispatch(automation, ev, idx, data, beh) ==
  LET running == Did(<<Entry("log", ev, idx, "running", <<>>, 0)>>)
  IN  IF IsDelayed(automation)
      THEN Join(running,
             [Nothing EXCEPT
                !.trace = <<Entry("arm", ev, idx, "setTimeout", <<>>,
                                  DelayTicks(automation))>>,
                !.timers = {[ev |-> ev, idx |-> idx, automation |-> automation,
                             data |-> data,
                             due |-> now + HostDelay(DelayTicks(automation))]}])
      ELSE Join(running, ExecuteAction(automation, ev, idx, data, beh))

\* A plausible slip: executeAction is run without its catch-all, and a
\* handler that throws takes the loop and the call down with it.
RECURSIVE LoopAbortsOnFailure(_, _, _, _, _, _, _)
LoopAbortsOnFailure(all, toRun, k, ev, triggerType, data, behs) ==
  IF k > Len(toRun) THEN Did(<<Entry("return", ev, 0, triggerType, <<>>, 0)>>)
  ELSE LET idx == toRun[k]
           shouldRun == ShouldRun(all[idx], triggerType, data)
           did == IF shouldRun = "run"
                  THEN Dispatch(all[idx], ev, idx, data, behs[idx])
                  ELSE Nothing
           threw == \E p \in DOMAIN did.trace :
                      did.trace[p].kind = "outcome" /\ did.trace[p].what = "threw"
       IN  IF shouldRun = "TypeError" \/ threw
           THEN Join(did, Did(<<Entry("throw", ev, idx, triggerType, <<>>, 0)>>))
           ELSE Join(did, LoopAbortsOnFailure(all, toRun, k + 1, ev, triggerType,
                                              data, behs))

\* A plausible slip: the loop awaits executeAction, so that the rest of the
\* pass waits for the promise of the handler just called.
RECURSIVE LoopAwaitingEach(_, _, _, _, _, _, _)
LoopAwaitingEach(all, toRun, k, ev, triggerType, data, behs) ==
  IF k > Len(toRun) THEN Did(<<Entry("return", ev, 0, triggerType, <<>>, 0)>>)
  ELSE LET idx == toRun[k]
           shouldRun == ShouldRun(all[idx], triggerType, data)
           did == IF shouldRun = "run"
                  THEN Dispatch(all[idx], ev, idx, data, behs[idx])
                  ELSE Nothing
       IN  IF shouldRun = "TypeError"
           THEN Did(<<Entry("throw", ev, idx, triggerType, <<>>, 0)>>)
           ELSE IF did.awaiting # {} THEN did
           ELSE Join(did, LoopAwaitingEach(all, toRun, k + 1, ev, triggerType,
                                           data, behs))

\* The for loop over automationsToRun from its k-th element on, and the end
\* of the call: a TypeError raised by a condition check leaves the loop and
\* the function.
RECURSIVE Loop(_, _, _, _, _, _, _)
Loop(all, toRun, k, ev, triggerType, data, behs) ==
  IF k > Len(toRun) THEN Did(<<Entry("return", ev, 0, triggerType, <<>>, 0)>>)
  ELSE LET idx == toRun[k]
           shouldRun == ShouldRun(all[idx], triggerType, data)
       IN  IF shouldRun = "TypeError"
           THEN Did(<<Entry("throw", ev, idx, triggerType, <<>>, 0)>>)
           ELSE Join(IF shouldRun = "run"
                     THEN Dispatch(all[idx], ev, idx, data, behs[idx])
                     ELSE Nothing,
                     Loop(all, toRun, k + 1, ev, triggerType, data, behs))

processAutomations(triggerType, data, all, ev, behs) ==
  Loop(all, AutomationsToRun(all, triggerType), 1, ev, triggerType, data, behs)

-----------------------------------------------------------------------------
(* Bounds and inputs *)

MaxRules == 2
MaxEvents == 1

\* The rule lists of at most MaxRules rules drawn from a pool.
RuleLists(pool) == UNION {[1..n -> pool] : n \in 0..MaxRules}

\* The action kinds that call no handler: what a handler would do is moot.
Unwired == {"send_sms", "update_job_status", "assign_team", "create_invoice"}

\* What each rule's handler does when it is called during one activation.
Behaviours(all) ==
  {behs \in [1..Len(all) -> {"ok", "throw"}] :
     \A i \in 1..Len(all) : all[i].action_type \in Unwired => behs[i] = "ok"}

\* Rules that differ in what the matcher reads (or is said to read); their
\* action is one that completes within the call.
MatchRule(enabled, type, to, from, min, max, other) ==
  [EMPTY_AUTOMATION EXCEPT
     !.name = "rule", !.is_enabled = enabled, !.trigger_type = type,
     !.trigger_config =
        [EmptyTriggerConfig EXCEPT
           !.to_status = to, !.from_status = from,
           !.job_value_min = min, !.job_value_max = max,
           !.days_overdue = IF other THEN 30 ELSE UndefNum,
           !.stock_threshold = IF other THEN 10 ELSE UndefNum,
           !.item_name = IF other THEN "Open-Cell Set" ELSE Undefined,
           !.time = IF other THEN "09:00" ELSE Undefined],
     !.action_type = "send_sms"]

MatchRules ==
  {MatchRule(TRUE, "job_created", Undefined, Undefined, b[1], b[2], FALSE) :
     b \in {<<UndefNum, UndefNum>>, <<50000, UndefNum>>, <<UndefNum, 50000>>,
            <<0, UndefNum>>, <<UndefNum, 0>>, <<50000, 50000>>}}
  \cup
  {MatchRule(TRUE, "job_status_updated", c[1], c[2], c[3], c[4], FALSE) :
     c \in {<<"sold", Undefined, UndefNum, UndefNum>>,
            <<"sold", "estimate", UndefNum, UndefNum>>,
            <<"paid", Undefined, UndefNum, UndefNum>>,
            <<Undefined, Undefined, UndefNum, UndefNum>>,
            <<"sold", Undefined, 50000, UndefNum>>,
            <<"sold", Undefined, UndefNum, 50000>>,
            <<"sold", Undefined, 0, UndefNum>>,
            <<"sold", Undefined, UndefNum, 0>>}}
  \cup
  {MatchRule(TRUE, type, "sold", "estimate", 50000, 50000, TRUE) :
     type \in {"new_customer", "task_completed", "invoice_overdue",
               "scheduled_time", "inventory_low"}}
  \cup
  {MatchRule(TRUE, "new_customer", Undefined, Undefined, UndefNum, UndefNum, FALSE),
   MatchRule(FALSE, "job_created", Undefined, Undefined, UndefNum, UndefNum, FALSE),
   MatchRule(FALSE, "inventory_low", Undefined, Undefined, UndefNum, UndefNum, TRUE)}

\* Payloads that differ in what the matcher reads: none at all, or a record
\* with or without a status and a final quote (499.99, 500.00, 500.01).
MatchPayloads ==
  {NoData} \cup
  {[EmptyRecord EXCEPT !.status = st, !.finalQuote = q] :
     st \in {Undefined, "sold", "paid"}, q \in {UndefNum, 49999, 50000, 50001}}

\* The editor is not shown and nothing has been handed to onSave.  The id
\* of the automation in the editor's state is kept beside it: UndefNum when
\* the automation has no id property.
EditorClosed ==
  /\ editor = [open |-> FALSE, automation |-> EMPTY_AUTOMATION, id |-> UndefNum]
  /\ onSaveCalls = <<>>
  /\ ownerCalls = <<>>

-----------------------------------------------------------------------------
(* Actions *)

\* A plausible slip: a rule is switched off in place once it has been
\* dispatched.
ProcessAutomationsOnce(triggerType, data) ==
  /\ Len(calls) < MaxEvents
  /\ \E behs \in Behaviours(automations) :
       LET ev == Len(calls) + 1
           did == processAutomations(triggerType, data, automations, ev, behs)
           dispatched == {did.trace[p].idx :
                            p \in {q \in DOMAIN did.trace :
                                     did.trace[q].what = "running"}}
       IN  /\ calls' = Append(calls, [triggerType |-> triggerType, data |-> data,
                                      all |-> automations])
           /\ trace' = trace \o did.trace
           /\ timers' = timers \cup did.timers
           /\ awaiting' = awaiting \cup did.awaiting
           /\ automations' =
                [i \in DOMAIN automations |->
                   IF i \in dispatched
                   THEN [automations[i] EXCEPT !.is_enabled = FALSE]
                   ELSE automations[i]]
  /\ UNCHANGED <<now, editor, onSaveCalls, ownerCalls>>

\* One call of processAutomations(triggerType, data, automations), from its
\* first line to its return, whatever the handlers do when called.
ProcessCall(triggerType, data) ==
  /\ \E behs \in Behaviours(automations) :
       LET ev == Len(calls) + 1
           did == processAutomations(triggerType, data, automations, ev, behs)
       IN  /\ calls' = Append(calls, [triggerType |-> triggerType, data |-> data,
                                      all |-> automations])
           /\ trace' = trace \o did.trace
           /\ timers' = timers \cup did.timers
           /\ awaiting' = awaiting \cup did.awaiting
  /\ UNCHANGED <<automations, now, editor, onSaveCalls, ownerCalls>>

\* An event source calls processAutomations(triggerType, data, automations).
ProcessAutomations(triggerType, data) ==
  /\ Len(calls) < MaxEvents
  /\ ProcessCall(triggerType, data)

\* The host runs a timer callback whose delay has elapsed.
TimerFire(t) ==
  /\ t \in timers
  /\ t.due <= now
  /\ \E beh \in {"ok", "throw"} :
       LET did == ExecuteAction(t.automation, t.ev, t.idx, t.data, beh)
       IN  /\ trace' = trace \o <<Entry("fire", t.ev, t.idx, "timer", <<>>, 0)>>
                             \o did.trace
           /\ awaiting' = awaiting \cup did.awaiting
  /\ timers' = timers \ {t}
  /\ UNCHANGED <<automations, calls, now, editor, onSaveCalls, ownerCalls>>

\* A handler's promise settles and the suspended executeAction goes on.
Settle(w, outcome) ==
  /\ w \in awaiting
  /\ awaiting' = awaiting \ {w}
  /\ trace' = trace \o <<Entry("outcome", w.ev, w.idx,
                               IF outcome = "resolve" THEN "resolved" ELSE "rejected",
                               <<>>, 0),
                         Continuation(w, outcome)>>
  /\ UNCHANGED <<automations, calls, timers, now, editor, onSaveCalls, ownerCalls>>

\* Time passes.
Advance(t) ==
  /\ t > now
  /\ now' = t
  /\ UNCHANGED <<automations, calls, trace, timers, awaiting, editor, onSaveCalls, ownerCalls>>

-----------------------------------------------------------------------------
(* The matcher on its own: one call on any list of MatchRules *)

InitMatch ==
  /\ automations \in RuleLists(MatchRules)
  /\ calls = <<>>
  /\ trace = <<>>
  /\ timers = {}
  /\ awaiting = {}
  /\ now = 0
  /\ EditorClosed

NextMatch ==
  \E triggerType \in TriggerTypes, data \in MatchPayloads :
    ProcessAutomations(triggerType, data)

SpecMatch == InitMatch /\ [][NextMatch]_vars

-----------------------------------------------------------------------------
(* The engine with its host: calls, timers, promises and the clock *)

DispatchRule(type, action, delay) ==
  [EMPTY_AUTOMATION EXCEPT
     !.name = "rule", !.trigger_type = type, !.action_type = action,
     !.trigger_config = [EmptyTriggerConfig EXCEPT
                           !.to_status = IF type = "job_status_updated" THEN "sold"
                                         ELSE Undefined],
     !.action_config =
        [EmptyActionConfig EXCEPT
           !.url = IF action = "webhook" THEN "https://hook.example" ELSE Undefined,
           !.task_title = IF action = "create_task" THEN <<"Follow up">> ELSE <<>>,
           !.email_recipient = IF action = "send_email" THEN "custom" ELSE Undefined,
           !.custom_email = IF action = "send_email" THEN "ops@example.com"
                            ELSE Undefined,
           !.email_subject = IF action = "send_email" THEN <<"Hello">> ELSE <<>>,
           !.delay_minutes = delay]]

\* 35795 minutes is the first multiple of the editor's step of 5 whose
\* milliseconds exceed 2^31 - 1.
DispatchRules ==
  {DispatchRule("new_customer", action, UndefNum) :
     action \in {"webhook", "create_task", "add_to_schedule", "send_email",
                 "update_inventory", "send_sms"}}
  \cup
  {DispatchRule("new_customer", "create_task", delay) : delay \in {0, 5, 35795}}
  \cup
  {[DispatchRule("new_customer", "webhook", UndefNum) EXCEPT
      !.action_config.url = Undefined],
   DispatchRule("job_status_updated", "create_task", UndefNum)}

CustomerRecord ==
  [EmptyRecord EXCEPT !.name = <<"Acme">>, !.address = <<"1 Main St">>,
                      !.email = "acme@example.com"]

JobRecord ==
  [EmptyRecord EXCEPT
     !.status = "sold", !.finalQuote = 50000,
     !.hasEstimateNumber = TRUE, !.estimateNumber = <<"1042">>,
     !.hasCustomer = TRUE, !.customer_name = <<"Acme">>,
     !.customer_address = <<"1 Main St">>, !.customer_email = "acme@example.com"]

Payloads == {NoData, CustomerRecord, JobRecord}

\* The instants the clock is looked at: just after the call, and either
\* side of five minutes (9375 ticks).
Instants == {1, 5 * TicksPerMinute - 1, 5 * TicksPerMinute}

Init ==
  /\ automations \in RuleLists(DispatchRules)
  /\ calls = <<>>
  /\ trace = <<>>
  /\ timers = {}
  /\ awaiting = {}
  /\ now = 0
  /\ EditorClosed

Next ==
  \/ \E triggerType \in TriggerTypes, data \in Payloads :
       ProcessAutomations(triggerType, data)
  \/ \E t \in timers : TimerFire(t)
  \/ \E w \in awaiting, outcome \in {"resolve", "reject"} : Settle(w, outcome)
  \/ \E t \in Instants : Advance(t)

Spec == Init /\ [][Next]_vars

-----------------------------------------------------------------------------
(* executeAction on its own: one new_customer call on rules that differ in *)
(* what executeAction reads, none of them delayed                          *)

ActionRule(action, cfg) ==
  [EMPTY_AUTOMATION EXCEPT !.name = "rule", !.action_type = action,
                           !.action_config = cfg]

TaskTitles ==
  {<<>>, <<"Follow up">>, Token("customer_name"), Token("job_number"),
   <<"Call ">> \o Token("customer_name")}

\* The placeholders the editor advertises under the e-mail fields.
EmailPlaceholders == {"customer_name", "job_number", "job_value", "company_name"}

\* email_recipient and custom_email as the editor can leave them.
RecipientSettings ==
  {<<Undefined, Undefined>>, <<"customer", Undefined>>, <<"team", Undefined>>,
   <<"custom", Undefined>>, <<"custom", "">>, <<"custom", "ops@example.com">>}

ActionRules ==
  {ActionRule("webhook", [EmptyActionConfig EXCEPT !.url = url]) :
     url \in {Undefined, "", "https://hook.example"}}
  \cup
  {ActionRule(action, [EmptyActionConfig EXCEPT !.new_status = "sold"]) :
     action \in Unwired}
  \cup
  {ActionRule("create_task", [EmptyActionConfig EXCEPT !.task_title = title]) :
     title \in TaskTitles}
  \cup
  {ActionRule("send_email",
              [EmptyActionConfig EXCEPT !.email_recipient = r[1],
                                        !.custom_email = r[2],
                                        !.email_subject = subject]) :
     r \in RecipientSettings, subject \in {<<>>, <<"Hello">>}}
  \cup
  {ActionRule("update_inventory", EmptyActionConfig),
   ActionRule("add_to_schedule", EmptyActionConfig),
   ActionRule("send_email",
              [EmptyActionConfig EXCEPT
                 !.email_recipient = "custom", !.custom_email = "ops@example.com",
                 !.email_subject = Token("company_name") \o <<" quote ">>
                                     \o Token("job_number"),
                 !.email_body = <<"Dear ">> \o Token("customer_name") \o <<", ">>
                                  \o Token("job_value") \o <<" - ">>
                                  \o Token("company_name")])}

\* A customer record with no e-mail address.
CustomerWithoutEmail == [CustomerRecord EXCEPT !.email = Undefined]

\* A job whose customer record and top level both carry an address, and
\* one whose customer record carries none.
JobWithTwoEmails == [JobRecord EXCEPT !.email = "billing@example.com"]

JobWithTopLevelEmail ==
  [JobRecord EXCEPT !.customer_email = Undefined, !.email = "billing@example.com"]

ActionPayloads ==
  {NoData, EmptyRecord, CustomerRecord, CustomerWithoutEmail, JobRecord,
   JobWithTwoEmails, JobWithTopLevelEmail}

InitAction ==
  /\ automations \in RuleLists(ActionRules)
  /\ calls = <<>>
  /\ trace = <<>>
  /\ timers = {}
  /\ awaiting = {}
  /\ now = 0
  /\ EditorClosed

NextAction ==
  \/ \E data \in ActionPayloads : ProcessAutomations("new_customer", data)
  \/ \E w \in awaiting, outcome \in {"resolve", "reject"} : Settle(w, outcome)

SpecAction == InitAction /\ [][NextAction]_vars

-----------------------------------------------------------------------------
(* replacePlaceholders at work: create_task rules whose title and          *)
(* description are templates, and payloads that differ in what the four    *)
(* tokens resolve to                                                       *)

Templates ==
  {Token("customer_name") \o <<" - ">> \o Token("job_number"),
   <<"Hi ">> \o Token("customer_name") \o Token("customer_name"),
   Token("customer_address") \o <<" ">> \o Token("job_value"),
   Token("company_name") \o <<" for ">> \o Token("customer_name"),
   <<"[">> \o Token("customer_name") \o <<"job_number", "]">>,
   <<"Follow up">>}

TemplateRules ==
  {ActionRule("create_task",
              [EmptyActionConfig EXCEPT !.task_title = t, !.task_description = t]) :
     t \in Templates}
  \cup
  {ActionRule("create_task",
              [EmptyActionConfig EXCEPT !.task_title = <<"Follow up">>])}

TemplatePayloads ==
  {NoData, EmptyRecord, CustomerRecord, JobRecord,
   [JobRecord EXCEPT !.name = <<"Other">>, !.address = <<"2 Side St">>],
   [JobRecord EXCEPT !.hasEstimateNumber = FALSE, !.estimateNumber = <<>>],
   [JobRecord EXCEPT !.finalQuote = 0],
   [JobRecord EXCEPT !.finalQuote = 49999, !.customer_address = <<>>],
   [CustomerRecord EXCEPT !.name = <<"Cash ", "$$", " Carry">>],
   [CustomerRecord EXCEPT !.name = <<"A ", "$&", " B">>],
   [JobRecord EXCEPT !.customer_name = Token("job_number")]}

InitReplace ==
  /\ automations \in RuleLists(TemplateRules)
  /\ calls = <<>>
  /\ trace = <<>>
  /\ timers = {}
  /\ awaiting = {}
  /\ now = 0
  /\ EditorClosed

NextReplace ==
  \/ \E data \in TemplatePayloads : ProcessAutomations("new_customer", data)
  \/ \E w \in awaiting, outcome \in {"resolve", "reject"} : Settle(w, outcome)

SpecReplace == InitReplace /\ [][NextReplace]_vars

-----------------------------------------------------------------------------
(* The rule editor: AutomationEditor, opened and closed by AutomationPage *)

MaxSaves == 1

\* The trigger_config inputs the form shows for a trigger kind.
TriggerFields(kind) ==
  CASE kind = "job_status_updated" ->
         {"from_status", "to_status", "job_value_min", "job_value_max"}
    [] kind = "job_created" -> {"job_value_min", "job_value_max"}
    [] kind = "invoice_overdue" -> {"days_overdue"}
    [] kind = "scheduled_time" -> {"time"}
    [] kind = "inventory_low" -> {"item_name", "stock_threshold"}
    [] OTHER -> {}

\* The action_config inputs the form shows: those of the action kind, and
\* the delay, which every kind has.
ActionFields(a) ==
  {"delay_minutes"} \cup
  (CASE a.action_type = "webhook" -> {"url"}
     [] a.action_type = "create_task" -> {"task_title", "task_description"}
     [] a.action_type = "send_email" ->
          {"email_recipient", "email_subject", "email_body"} \cup
          (IF a.action_config.email_recipient = "custom" THEN {"custom_email"}
           ELSE {})
     [] a.action_type = "update_job_status" -> {"new_status"}
     [] OTHER -> {})

\* The kinds and the values the user picks or types here.
EditorTriggerTypes == {"new_customer", "job_status_updated", "inventory_low"}

EditorActionTypes == {"create_task", "webhook", "send_sms"}

EditedFields ==
  {"to_status", "job_value_min", "item_name", "stock_threshold", "url",
   "task_title", "delay_minutes"}

EditorValue(field) ==
  CASE field = "to_status" -> "sold"
    [] field = "job_value_min" -> 50000
    [] field = "item_name" -> "Open-Cell Set"
    [] field = "stock_threshold" -> 10
    [] field = "url" -> "https://hook.example"
    [] field = "task_title" -> <<"Follow up">>
    [] OTHER -> 5

\* The form's required inputs that are on show have a value, so that the
\* browser lets the form be submitted.
RequiredFilled(a) ==
  /\ a.name # ""
  /\ a.trigger_type = "job_status_updated" => TruthyStr(a.trigger_config.to_status)
  /\ a.trigger_type = "inventory_low" => TruthyStr(a.trigger_config.item_name)
  /\ a.action_type = "webhook" => TruthyStr(a.action_config.url)
  /\ a.action_type = "create_task" => a.action_config.task_title # <<>>
  /\ a.action_type = "update_job_status" => TruthyStr(a.action_config.new_status)
  /\ a.action_type = "send_email" =>
       /\ a.action_config.email_subject # <<>> /\ a.action_config.email_body # <<>>
       /\ a.action_config.email_recipient = "custom"
            => TruthyStr(a.action_config.custom_email)

\* handleOpenEditor: the editor starts from the automation it is given,
\* with the id it has, or from EMPTY_AUTOMATION, which has none.
HandleOpenEditor(existing, id) ==
  /\ ~editor.open
  /\ Len(onSaveCalls) < MaxSaves
  /\ editor' = [open |-> TRUE, automation |-> existing, id |-> id]
  /\ UNCHANGED <<automations, calls, trace, timers, awaiting, now, onSaveCalls,
                 ownerCalls>>

\* onCancel: setIsEditorOpen(false)
HandleCancel ==
  /\ editor.open
  /\ editor' = [editor EXCEPT !.open = FALSE]
  /\ UNCHANGED <<automations, calls, trace, timers, awaiting, now, onSaveCalls,
                 ownerCalls>>

\* handleFieldChange: the field is set, the rest of the automation is kept.
HandleFieldChange(field, value) ==
  /\ editor.open
  /\ editor' = [editor EXCEPT !.automation[field] = value]
  /\ UNCHANGED <<automations, calls, trace, timers, awaiting, now, onSaveCalls,
                 ownerCalls>>

\* handleConfigChange, from an input that is on show: the field of the
\* config is set, the rest of the config is kept.
HandleConfigChange(configType, field, value) ==
  /\ editor.open
  /\ field \in (IF configType = "trigger_config"
                THEN TriggerFields(editor.automation.trigger_type)
                ELSE ActionFields(editor.automation))
  /\ editor' = [editor EXCEPT !.automation[configType][field] = value]
  /\ UNCHANGED <<automations, calls, trace, timers, awaiting, now, onSaveCalls,
                 ownerCalls>>

\* handleSave, up to its await: 'id' in automation decides between
\* onUpdateAutomation and onAddAutomation; the call made is pending.
HandleSave(save, id) ==
  IF id # UndefNum
  THEN <<[save |-> save, op |-> "onUpdateAutomation", id |-> id, state |-> "pending"]>>
  ELSE <<[save |-> save, op |-> "onAddAutomation", id |-> id, state |-> "pending"]>>

\* handleSubmit hands the automation to onSave as it stands, and handleSave
\* calls the owner and waits; the form's required inputs have been filled.
HandleSubmit ==
  /\ editor.open
  /\ Len(onSaveCalls) < MaxSaves
  /\ RequiredFilled(editor.automation)
  /\ onSaveCalls' = Append(onSaveCalls, editor.automation)
  /\ ownerCalls' = ownerCalls \o HandleSave(Len(onSaveCalls) + 1, editor.id)
  /\ UNCHANGED <<automations, calls, trace, timers, awaiting, now, editor>>

\* A plausible slip: the editor is closed in a finally, whatever became of
\* the owner's call.
SaveSettlesClosing(j, outcome) ==
  /\ j \in DOMAIN ownerCalls
  /\ ownerCalls[j].state = "pending"
  /\ ownerCalls' = [ownerCalls EXCEPT ![j].state = outcome]
  /\ editor' = [editor EXCEPT !.open = FALSE]
  /\ UNCHANGED <<automations, calls, trace, timers, awaiting, now, onSaveCalls>>

\* The owner's promise settles and handleSave goes on after its await:
\* setIsEditorOpen(false) when it resolved, nothing when it rejected (the
\* rejection leaves handleSave).
SaveSettles(j, outcome) ==
  /\ j \in DOMAIN ownerCalls
  /\ ownerCalls[j].state = "pending"
  /\ ownerCalls' = [ownerCalls EXCEPT ![j].state = outcome]
  /\ editor' = IF outcome = "resolved" THEN [editor EXCEPT !.open = FALSE]
               ELSE editor
  /\ UNCHANGED <<automations, calls, trace, timers, awaiting, now, onSaveCalls>>

\* A rule of the owner's list, for the editor to be opened on.
ExistingRule == DispatchRule("new_customer", "create_task", UndefNum)

\* The page shows one rule, whose id is its place in the list.
InitEditor ==
  /\ automations = <<ExistingRule>>
  /\ calls = <<>>
  /\ trace = <<>>
  /\ timers = {}
  /\ awaiting = {}
  /\ now = 0
  /\ EditorClosed

\* The form is edited as long as a save is still to come.
Editing == Len(onSaveCalls) < MaxSaves

NextEditor ==
  \/ HandleOpenEditor(EMPTY_AUTOMATION, UndefNum)
  \/ \E i \in DOMAIN automations : HandleOpenEditor(automations[i], i)
  \/ HandleCancel
  \/ Editing /\ HandleFieldChange("name", "Rule")
  \/ \E value \in BOOLEAN : Editing /\ HandleFieldChange("is_enabled", value)
  \/ \E value \in EditorTriggerTypes :
       Editing /\ HandleFieldChange("trigger_type", value)
  \/ \E value \in EditorActionTypes :
       Editing /\ HandleFieldChange("action_type", value)
  \/ \E field \in EditedFields :
       /\ Editing
       /\ HandleConfigChange(IF field \in DOMAIN EmptyTriggerConfig
                             THEN "trigger_config" ELSE "action_config",
                             field, EditorValue(field))
  \/ HandleSubmit
  \/ \E j \in DOMAIN ownerCalls, outcome \in {"resolved", "rejected"} :
       SaveSettles(j, outcome)

SpecEditor == InitEditor /\ [][NextEditor]_vars

-----------------------------------------------------------------------------
(* Scheduled actions while the rule set changes: the page's owner replaces, *)
(* removes or toggles rules and sends further events while timers are      *)
(* pending.  The owner keeps its rules in React state: an update puts a     *)
(* new object in a new array, the objects a pending callback holds are not  *)
(* written to.                                                              *)

\* onUpdateAutomation: the rule at position i gives way to the one passed.
OnUpdateAutomation(i, automation) ==
  /\ i \in DOMAIN automations
  /\ automation # automations[i]
  /\ automations' = [automations EXCEPT ![i] = automation]
  /\ UNCHANGED <<calls, trace, timers, awaiting, now, editor, onSaveCalls, ownerCalls>>

\* onDeleteAutomation: the rule at position i leaves the rule set.
OnDeleteAutomation(i) ==
  /\ i \in DOMAIN automations
  /\ automations' = [k \in 1..(Len(automations) - 1) |->
                       IF k < i THEN automations[k] ELSE automations[k + 1]]
  /\ UNCHANGED <<calls, trace, timers, awaiting, now, editor, onSaveCalls, ownerCalls>>

\* handleToggle: onUpdateAutomation({...automation, is_enabled: !is_enabled})
HandleToggle(i) ==
  /\ i \in DOMAIN automations
  /\ OnUpdateAutomation(i, [automations[i] EXCEPT
                              !.is_enabled = ~automations[i].is_enabled])

\* create_task rules: one run in five minutes, and one whose delay is the
\* 35795 minutes of DispatchRules.
ScheduledRules ==
  {[DispatchRule("new_customer", "create_task", delay) EXCEPT
      !.action_config.task_title = <<"Call ">> \o Token("customer_name")] :
     delay \in {5, 35795}}

\* The same rule after an edit of its title.
Retitled(automation) ==
  [automation EXCEPT !.action_config.task_title = <<"Edited">>]

InitSchedule ==
  /\ automations \in RuleLists(ScheduledRules)
  /\ calls = <<>>
  /\ trace = <<>>
  /\ timers = {}
  /\ awaiting = {}
  /\ now = 0
  /\ EditorClosed

\* The payloads of the events: no two events carry the same.
SchedulePayloads == {CustomerRecord, JobRecord}

\* A timer is pending, a further event is to come, and the rule set is
\* still the one the last event was processed with: the owner changes it
\* once between two events.
Meantime ==
  /\ timers # {}
  /\ Len(calls) <= MaxEvents
  /\ automations = calls[Len(calls)].all

\* Events come in until one more than MaxEvents has been processed, so
\* that a further event finds the timers of an earlier one pending; the
\* rule set changes while a timer is pending.
NextSchedule ==
  \/ \E data \in SchedulePayloads :
       /\ Len(calls) <= MaxEvents
       /\ \A ev \in DOMAIN calls : calls[ev].data # data
       /\ ProcessCall("new_customer", data)
  \/ \E t \in timers : TimerFire(t)
  \/ \E t \in Instants : Advance(t)
  \/ \E i \in DOMAIN automations : Meantime /\ HandleToggle(i)
  \/ \E i \in DOMAIN automations :
       Meantime /\ OnUpdateAutomation(i, Retitled(automations[i]))
  \/ \E i \in DOMAIN automations : Meantime /\ OnDeleteAutomation(i)

SpecSchedule == InitSchedule /\ [][NextSchedule]_vars

-----------------------------------------------------------------------------
(* Reading the trace *)

\* Rule idx of call ev was dispatched: its "Running automation" line.
Ran(ev, idx) ==
  \E p \in DOMAIN trace :
    /\ trace[p].kind = "log" /\ trace[p].what = "running"
    /\ trace[p].ev = ev /\ trace[p].idx = idx

\* The positions of the rules call ev dispatched, in the order dispatched.
DispatchedSeq(ev) ==
  LET lines == SelectSeq(trace, LAMBDA e : e.kind = "log" /\ e.what = "running"
                                           /\ e.ev = ev)
  IN  [p \in 1..Len(lines) |-> lines[p].idx]

\* The loop of call ev got as far as rule idx.
Reached(ev, idx) ==
  \A p \in DOMAIN trace :
    (trace[p].kind = "throw" /\ trace[p].ev = ev) => idx <= trace[p].idx

\* The statements about matching, as the specification words them.
Configured(bound) == bound # UndefNum /\ bound # 0

StatedJobValue(data) == IF data.finalQuote = UndefNum THEN 0 ELSE data.finalQuote

StatedBoundsHold(cfg, data) ==
  /\ ~(Configured(cfg.job_value_min) /\ cfg.job_value_min > StatedJobValue(data))
  /\ ~(Configured(cfg.job_value_max) /\ cfg.job_value_max < StatedJobValue(data))

StatedCondition(rule, kind, data) ==
  CASE kind = "job_created" -> StatedBoundsHold(rule.trigger_config, data)
    [] kind = "job_status_updated" ->
         /\ data.status = rule.trigger_config.to_status
         /\ StatedBoundsHold(rule.trigger_config, data)
    [] OTHER -> TRUE

StatedMatches(call) ==
  SelectSeq([i \in 1..Len(call.all) |-> i],
            LAMBDA i : /\ call.all[i].is_enabled
                       /\ call.all[i].trigger_type = call.triggerType
                       /\ StatedCondition(call.all[i], call.triggerType, call.data))

JobKinds == {"job_created", "job_status_updated"}

UnconditionalKinds ==
  {"new_customer", "task_completed", "invoice_overdue", "scheduled_time",
   "inventory_low"}

-----------------------------------------------------------------------------
(* Claims about matching, checked under SpecMatch *)

\* C1: for every rule list and every event, the rules processAutomations
\* dispatches are exactly the enabled rules of the event's kind whose
\* kind-specific condition holds for the payload, in the order of the list.
C1_DispatchesExactlyTheMatching ==
  \A ev \in DOMAIN calls : DispatchedSeq(ev) = StatedMatches(calls[ev])

\* C1, on the events that carry a record: there the statement holds.
C1_HoldsWithARecord ==
  \A ev \in DOMAIN calls :
    calls[ev].data.defined => DispatchedSeq(ev) = StatedMatches(calls[ev])

\* C6: an enabled job_created rule with a non-zero job_value_min m and no
\* job_value_max matches an event exactly when the job value is at least m
\* (not 499.99 against 500, but 500.00).
C6_MinIsInclusive ==
  \A ev \in DOMAIN calls : \A i \in DOMAIN calls[ev].all :
    LET rule == calls[ev].all[i]
        cfg == rule.trigger_config
    IN  (/\ calls[ev].triggerType = "job_created"
         /\ rule.is_enabled /\ rule.trigger_type = "job_created"
         /\ Configured(cfg.job_value_min) /\ cfg.job_value_max = UndefNum)
        => (Ran(ev, i) <=> StatedJobValue(calls[ev].data) >= cfg.job_value_min)

\* C6's case: a rule with a minimum of 500.00 dispatched for a job of 500.00.
C6_Witness ==
  \E ev \in DOMAIN calls : \E i \in DOMAIN calls[ev].all :
    /\ calls[ev].triggerType = "job_created"
    /\ calls[ev].all[i].trigger_type = "job_created"
    /\ calls[ev].all[i].trigger_config.job_value_min = 50000
    /\ calls[ev].all[i].trigger_config.job_value_max = UndefNum
    /\ calls[ev].data.finalQuote = 50000
    /\ Ran(ev, i)

\* C7: an enabled job_created rule matches a job_created event unless its
\* configured job_value_min exceeds the job value or its configured
\* job_value_max is less than it, the job value being 0 when the payload
\* carries no final quote.
C7_JobCreatedMatchesUnlessOutOfBounds ==
  \A ev \in DOMAIN calls : \A i \in DOMAIN calls[ev].all :
    LET rule == calls[ev].all[i]
    IN  (/\ calls[ev].triggerType = "job_created"
         /\ rule.is_enabled /\ rule.trigger_type = "job_created")
        => (Ran(ev, i) <=> StatedBoundsHold(rule.trigger_config, calls[ev].data))

\* C8: a job_value_min or job_value_max that is zero never filters: of two
\* job rules that differ only in one having the bound at zero and the other
\* not having it, the loop dispatches both or neither.
C8_ZeroBoundNeverFilters ==
  \A ev \in DOMAIN calls : \A i, j \in DOMAIN calls[ev].all :
    LET zero == calls[ev].all[i]
        none == calls[ev].all[j]
    IN  (/\ none.trigger_type \in JobKinds
         /\ Reached(ev, i) /\ Reached(ev, j)
         /\ \/ /\ none.trigger_config.job_value_min = UndefNum
               /\ zero = [none EXCEPT !.trigger_config.job_value_min = 0]
            \/ /\ none.trigger_config.job_value_max = UndefNum
               /\ zero = [none EXCEPT !.trigger_config.job_value_max = 0])
        => (Ran(ev, i) <=> Ran(ev, j))

\* C8's case: a rule with job_value_max 0 and the same rule without it, both
\* dispatched for a job worth 500.01.
C8_Witness ==
  \E ev \in DOMAIN calls : \E i, j \in DOMAIN calls[ev].all :
    /\ calls[ev].all[j].trigger_config.job_value_max = UndefNum
    /\ calls[ev].all[i] =
         [calls[ev].all[j] EXCEPT !.trigger_config.job_value_max = 0]
    /\ calls[ev].data.finalQuote = 50001
    /\ Ran(ev, i) /\ Ran(ev, j)

\* C9, first part: a job_status_updated rule is dispatched only if the
\* event's status equals its to_status.
C9_OnlyIfToStatus ==
  \A ev \in DOMAIN calls : \A i \in DOMAIN calls[ev].all :
    (calls[ev].triggerType = "job_status_updated" /\ Ran(ev, i))
      => calls[ev].data.status = calls[ev].all[i].trigger_config.to_status

\* C9, second part: two rules that differ only in from_status are dispatched
\* for the same events.
C9_FromStatusHasNoInfluence ==
  \A ev \in DOMAIN calls : \A i, j \in DOMAIN calls[ev].all :
    (/\ calls[ev].all[i].trigger_type = "job_status_updated"
     /\ \E from \in {Undefined, "", "estimate", "sold", "invoiced", "paid"} :
          calls[ev].all[i] =
            [calls[ev].all[j] EXCEPT !.trigger_config.from_status = from])
    => (Ran(ev, i) <=> Ran(ev, j))

\* C9 as stated: a job_status_updated rule matches only if the new status
\* equals its to_status, from_status has no influence, and a rule with
\* to_status "sold" matches every event whose new status is "sold".
C9_AsStated ==
  /\ C9_OnlyIfToStatus
  /\ C9_FromStatusHasNoInfluence
  /\ \A ev \in DOMAIN calls : \A i \in DOMAIN calls[ev].all :
       (/\ calls[ev].triggerType = "job_status_updated"
        /\ calls[ev].all[i].is_enabled
        /\ calls[ev].all[i].trigger_type = "job_status_updated"
        /\ calls[ev].all[i].trigger_config.to_status = "sold"
        /\ calls[ev].data.status = "sold")
       => Ran(ev, i)

\* C9, amended: as stated, but a rule with to_status "sold" matches every
\* event whose new status is "sold" and whose job value is within the
\* rule's configured non-zero job value bounds.
C9_Amended ==
  /\ C9_OnlyIfToStatus
  /\ C9_FromStatusHasNoInfluence
  /\ \A ev \in DOMAIN calls : \A i \in DOMAIN calls[ev].all :
       (/\ calls[ev].triggerType = "job_status_updated"
        /\ calls[ev].all[i].is_enabled
        /\ calls[ev].all[i].trigger_type = "job_status_updated"
        /\ calls[ev].all[i].trigger_config.to_status = "sold"
        /\ calls[ev].data.status = "sold"
        /\ StatedBoundsHold(calls[ev].all[i].trigger_config, calls[ev].data))
       => Ran(ev, i)

\* C9's case: an event that turns a job to "sold", and two rules for "sold"
\* that differ only in from_status, both dispatched.
C9_Witness ==
  \E ev \in DOMAIN calls : \E i, j \in DOMAIN calls[ev].all :
    /\ calls[ev].data.status = "sold"
    /\ calls[ev].all[i].trigger_config.to_status = "sold"
    /\ calls[ev].all[i].trigger_config.from_status = "estimate"
    /\ calls[ev].all[j] =
         [calls[ev].all[i] EXCEPT !.trigger_config.from_status = Undefined]
    /\ Ran(ev, i) /\ Ran(ev, j)

\* C10: for new_customer, task_completed, invoice_overdue, scheduled_time
\* and inventory_low, every enabled rule of the event's kind is dispatched,
\* whatever its trigger configuration and whatever the payload.
C10_UnconditionalKindsAlwaysMatch ==
  \A ev \in DOMAIN calls : \A i \in DOMAIN calls[ev].all :
    (/\ calls[ev].triggerType \in UnconditionalKinds
     /\ calls[ev].all[i].is_enabled
     /\ calls[ev].all[i].trigger_type = calls[ev].triggerType)
    => Ran(ev, i)

\* C10's case: an inventory_low rule that carries job value bounds of 500,
\* statuses and thresholds, dispatched for a payload worth 499.99.
C10_Witness ==
  \E ev \in DOMAIN calls : \E i \in DOMAIN calls[ev].all :
    /\ calls[ev].triggerType = "inventory_low"
    /\ calls[ev].all[i].trigger_config.job_value_min = 50000
    /\ calls[ev].all[i].trigger_config.stock_threshold = 10
    /\ calls[ev].data.finalQuote = 49999
    /\ Ran(ev, i)

-----------------------------------------------------------------------------
(* Claims about dispatch, checked under Spec *)

Invoked(ev, idx) ==
  \E p \in DOMAIN trace :
    trace[p].kind = "invoke" /\ trace[p].ev = ev /\ trace[p].idx = idx

HandlerOutcome(ev, idx, whats) ==
  \E p \in DOMAIN trace :
    /\ trace[p].kind = "outcome" /\ trace[p].what \in whats
    /\ trace[p].ev = ev /\ trace[p].idx = idx

SuccessLines ==
  {"webhook_sent", "task_created", "job_added", "email_sent", "inventory_updated"}

ReportedSuccess(ev, idx) ==
  \E p \in DOMAIN trace :
    /\ trace[p].kind = "log" /\ trace[p].what \in SuccessLines
    /\ trace[p].ev = ev /\ trace[p].idx = idx

ReportedFailure(ev, idx) ==
  \E p \in DOMAIN trace :
    trace[p].kind = "error" /\ trace[p].ev = ev /\ trace[p].idx = idx

Armed(ev, idx) ==
  \E p \in DOMAIN trace :
    trace[p].kind = "arm" /\ trace[p].ev = ev /\ trace[p].idx = idx

Fired(ev, idx) ==
  \E p \in DOMAIN trace :
    trace[p].kind = "fire" /\ trace[p].ev = ev /\ trace[p].idx = idx

TimerPending(ev, idx) == \E t \in timers : t.ev = ev /\ t.idx = idx

\* Where call ev ended in the trace, by returning or by throwing.
EndOfCall(ev) ==
  CHOOSE p \in DOMAIN trace :
    trace[p].kind \in {"return", "throw"} /\ trace[p].ev = ev

\* Rule idx is a matched rule of pass ev: enabled, of the event's kind, its
\* condition check says run, and no condition check before it raised.
Matched(ev, idx) ==
  LET call == calls[ev]
      Listens(k) == call.all[k].is_enabled
                    /\ call.all[k].trigger_type = call.triggerType
  IN  /\ Listens(idx)
      /\ ShouldRun(call.all[idx], call.triggerType, call.data) = "run"
      /\ \A k \in 1..(idx - 1) :
           Listens(k) =>
             ShouldRun(call.all[k], call.triggerType, call.data) # "TypeError"

\* The rule, run on its own against the payload, gets to call its handler.
CallsHandler(rule, data) ==
  \E p \in DOMAIN ExecuteAction(rule, 1, 1, data, "ok").trace :
    ExecuteAction(rule, 1, 1, data, "ok").trace[p].kind = "invoke"

\* executeAction has been started for the rule: at once, or by its timer.
Executed(ev, idx) == ~IsDelayed(calls[ev].all[idx]) \/ Fired(ev, idx)

\* C2: in a pass in which two or more rules match and the handler of one of
\* them fails (it throws, or its promise is rejected), every other matched
\* rule is still dispatched, has its handler invoked, and reports success
\* when that handler succeeds; the failure is reported, and the call throws
\* only where a condition check raised, never for a handler.
C2_HandlerFailureIsIsolated ==
  \A ev \in DOMAIN calls : \A i, j \in DOMAIN calls[ev].all :
    (/\ i # j /\ Matched(ev, i) /\ Matched(ev, j)
     /\ HandlerOutcome(ev, i, {"threw", "rejected"}))
    => /\ ReportedFailure(ev, i)
       /\ Ran(ev, j)
       /\ Executed(ev, j) \/ TimerPending(ev, j)
       /\ (Executed(ev, j) /\ CallsHandler(calls[ev].all[j], calls[ev].data))
            => Invoked(ev, j)
       /\ HandlerOutcome(ev, j, {"returned", "resolved"})
            => (ReportedSuccess(ev, j) /\ ~ReportedFailure(ev, j))
       /\ \A p \in DOMAIN trace :
            (trace[p].kind = "throw" /\ trace[p].ev = ev)
              => ShouldRun(calls[ev].all[trace[p].idx], calls[ev].triggerType,
                           calls[ev].data) = "TypeError"

\* C2's case: two matched rules, the first one's handler threw, the second
\* one's handler was called after that and its success is reported.
C2_Witness ==
  \E ev \in DOMAIN calls : \E i, j \in DOMAIN calls[ev].all :
    /\ i < j /\ Matched(ev, i) /\ Matched(ev, j)
    /\ HandlerOutcome(ev, i, {"threw"}) /\ ReportedFailure(ev, i)
    /\ Invoked(ev, j) /\ HandlerOutcome(ev, j, {"resolved"})
    /\ ReportedSuccess(ev, j)

\* C3: processAutomations never raises to its caller, for every trigger
\* kind, rule list and payload, an absent payload included.
C3_NeverRaises ==
  \A p \in DOMAIN trace : trace[p].kind # "throw"

\* C4: the handler of a matched rule with a positive delay_minutes d is not
\* invoked before d * 60 seconds have passed since the event was processed.
C4_NotBeforeTheDelay ==
  \A p \in DOMAIN trace :
    trace[p].kind = "fire" =>
      \E q \in 1..(p - 1) :
        /\ trace[q].kind = "arm"
        /\ trace[q].ev = trace[p].ev /\ trace[q].idx = trace[p].idx
        /\ trace[p].at - trace[q].at >=
             calls[trace[p].ev].all[trace[p].idx].action_config.delay_minutes
               * TicksPerMinute

\* C4, for the delays whose milliseconds fit the timer's 32 bits: there the
\* statement holds.
C4_HoldsBelowTheTimerRange ==
  \A p \in DOMAIN trace :
    (/\ trace[p].kind = "fire"
     /\ calls[trace[p].ev].all[trace[p].idx].action_config.delay_minutes
          * TicksPerMinute < 2^26) =>
      \E q \in 1..(p - 1) :
        /\ trace[q].kind = "arm"
        /\ trace[q].ev = trace[p].ev /\ trace[q].idx = trace[p].idx
        /\ trace[p].at - trace[q].at >=
             calls[trace[p].ev].all[trace[p].idx].action_config.delay_minutes
               * TicksPerMinute

\* C5: a matched rule with delay_minutes 0 and the same rule with
\* delay_minutes absent behave identically: no timer is armed for either,
\* and the handler of each is invoked before processAutomations returns.
C5_ZeroAndAbsentDelayAreImmediate ==
  \A ev \in DOMAIN calls : \A i \in DOMAIN calls[ev].all :
    LET rule == calls[ev].all[i]
    IN  (Matched(ev, i) /\ rule.action_config.delay_minutes \in {0, UndefNum})
        => /\ ~Armed(ev, i) /\ ~TimerPending(ev, i) /\ ~Fired(ev, i)
           /\ CallsHandler(rule, calls[ev].data)
                => \E p \in 1..(EndOfCall(ev) - 1) :
                     /\ trace[p].kind = "invoke"
                     /\ trace[p].ev = ev /\ trace[p].idx = i
           /\ \A j \in DOMAIN calls[ev].all :
                (/\ calls[ev].all[j].action_config.delay_minutes = UndefNum
                 /\ rule = [calls[ev].all[j] EXCEPT
                              !.action_config.delay_minutes = 0])
                => (Invoked(ev, i) <=> Invoked(ev, j))

\* C5's case: a rule with delay_minutes 0 and the same rule without it, the
\* handler of each invoked before the call returned.
C5_Witness ==
  \E ev \in DOMAIN calls : \E i, j \in DOMAIN calls[ev].all :
    /\ calls[ev].all[j].action_config.delay_minutes = UndefNum
    /\ calls[ev].all[i] =
         [calls[ev].all[j] EXCEPT !.action_config.delay_minutes = 0]
    /\ \A k \in {i, j} :
         \E p \in 1..(EndOfCall(ev) - 1) :
           trace[p].kind = "invoke" /\ trace[p].ev = ev /\ trace[p].idx = k

-----------------------------------------------------------------------------
(* Claims about executeAction, checked under SpecAction *)

\* The console lines about rule idx of call ev, the "Running automation"
\* line apart: what executeAction reported.
Reports(ev, idx) ==
  SelectSeq(trace, LAMBDA e : /\ e.kind \in {"log", "warn", "error"}
                              /\ e.what # "running"
                              /\ e.ev = ev /\ e.idx = idx)

\* A skip is reported by a console.warn that says "skipped".
SkipLines == {"skipped_no_email_recipient", "skipped_not_a_job"}

ReportedSkip(ev, idx) ==
  \E p \in DOMAIN trace :
    /\ trace[p].kind = "warn" /\ trace[p].what \in SkipLines
    /\ trace[p].ev = ev /\ trace[p].idx = idx

RuleOf(ev, idx) == calls[ev].all[idx]

\* C11: a matched webhook rule with no url configured never calls the
\* network layer, and a skip is reported for it, not a failure.
C11_WebhookWithoutUrlReportsSkip ==
  \A ev \in DOMAIN calls : \A i \in DOMAIN calls[ev].all :
    (/\ Matched(ev, i) /\ RuleOf(ev, i).action_type = "webhook"
     /\ ~TruthyStr(RuleOf(ev, i).action_config.url))
    => /\ ~Invoked(ev, i)
       /\ ReportedSkip(ev, i)
       /\ ~ReportedFailure(ev, i)

\* C11, the part the code keeps: without a url the network layer is never
\* called and no failure is reported.
C11_WebhookWithoutUrlCallsNothing ==
  \A ev \in DOMAIN calls : \A i \in DOMAIN calls[ev].all :
    (/\ Matched(ev, i) /\ RuleOf(ev, i).action_type = "webhook"
     /\ ~TruthyStr(RuleOf(ev, i).action_config.url))
    => ~Invoked(ev, i) /\ ~ReportedFailure(ev, i) /\ Reports(ev, i) = <<>>

NoOpLines == {kind \o "_not_implemented" : kind \in Unwired}

\* C12: a matched rule whose action kind is send_sms, update_job_status,
\* assign_team or create_invoice raises nothing, calls no handler, and has
\* exactly one report, a no-op line that is neither one of the success
\* lines nor a failure.
C12_UnwiredKindsReportNoOp ==
  \A ev \in DOMAIN calls : \A i \in DOMAIN calls[ev].all :
    (Matched(ev, i) /\ RuleOf(ev, i).action_type \in Unwired)
    => /\ ~Invoked(ev, i)
       /\ ~ReportedFailure(ev, i)
       /\ \A p \in DOMAIN trace :
            ~(trace[p].kind = "throw" /\ trace[p].ev = ev /\ trace[p].idx = i)
       /\ Len(Reports(ev, i)) = 1
       /\ Reports(ev, i)[1].kind = "log"
       /\ Reports(ev, i)[1].what \in NoOpLines \ SuccessLines
       /\ Reports(ev, i)[1].what = RuleOf(ev, i).action_type \o "_not_implemented"

\* C12's case: a pass with a matched send_sms rule and a matched
\* create_invoice rule, each with its no-op line.
C12_Witness ==
  \E ev \in DOMAIN calls : \E i, j \in DOMAIN calls[ev].all :
    /\ Matched(ev, i) /\ RuleOf(ev, i).action_type = "send_sms"
    /\ Matched(ev, j) /\ RuleOf(ev, j).action_type = "create_invoice"
    /\ Len(Reports(ev, i)) = 1 /\ Reports(ev, i)[1].what = "send_sms_not_implemented"
    /\ Len(Reports(ev, j)) = 1
    /\ Reports(ev, j)[1].what = "create_invoice_not_implemented"

\* The arguments the handler of rule idx was called with in call ev.
InvokeArgs(ev, idx) ==
  {trace[p].args : p \in {q \in DOMAIN trace :
                            /\ trace[q].kind = "invoke"
                            /\ trace[q].ev = ev /\ trace[q].idx = idx}}

\* C13: for a matched create_task rule the create-task handler is invoked
\* only with a title that is non-empty after substitution; when no title is
\* configured the handler is not called and a skip is reported.
C13_TaskOnlyWithTitleAfterSubstitution ==
  \A ev \in DOMAIN calls : \A i \in DOMAIN calls[ev].all :
    (Matched(ev, i) /\ RuleOf(ev, i).action_type = "create_task")
    => /\ \A args \in InvokeArgs(ev, i) : args[1] # <<>>
       /\ RuleOf(ev, i).action_config.task_title = <<>>
            => (~Invoked(ev, i) /\ ReportedSkip(ev, i))

\* C13, the part the code keeps: without a configured title the handler is
\* not called.
C13_NoCallWithoutConfiguredTitle ==
  \A ev \in DOMAIN calls : \A i \in DOMAIN calls[ev].all :
    (/\ Matched(ev, i) /\ RuleOf(ev, i).action_type = "create_task"
     /\ RuleOf(ev, i).action_config.task_title = <<>>)
    => ~Invoked(ev, i)

\* C13: the title handed over is empty after substitution.
C13_CalledWithEmptyTitle ==
  \E ev \in DOMAIN calls : \E i \in DOMAIN calls[ev].all :
    /\ RuleOf(ev, i).action_config.task_title = Token("job_number")
    /\ \E args \in InvokeArgs(ev, i) : args[1] = <<>>

\* The recipient as the specification words it: the rule's custom address,
\* the team's, or the customer's e-mail from the nested customer record or
\* else from the top level; "" when there is none.
StatedRecipient(cfg, data) ==
  CASE cfg.email_recipient = "custom" ->
         IF cfg.custom_email = Undefined THEN "" ELSE cfg.custom_email
    [] cfg.email_recipient = "team" -> "team@example.com"
    [] OTHER ->
         IF data.customer_email \notin {Undefined, ""} THEN data.customer_email
         ELSE IF data.email \notin {Undefined, ""} THEN data.email
         ELSE ""

StatedEmailPrecondition(cfg, data) ==
  StatedRecipient(cfg, data) # "" /\ cfg.email_subject # <<>>

SendEmailAsStated(ev, i) ==
  IF StatedEmailPrecondition(RuleOf(ev, i).action_config, calls[ev].data)
  THEN Invoked(ev, i)
  ELSE ~Invoked(ev, i) /\ ReportedSkip(ev, i) /\ ~ReportedFailure(ev, i)

\* C14: for a matched send_email rule the send-email handler is invoked
\* exactly when a non-empty recipient is resolved and a subject is
\* configured; otherwise it is not called and a skip is reported, not a
\* failure.
C14_EmailExactlyWithRecipientAndSubject ==
  \A ev \in DOMAIN calls : \A i \in DOMAIN calls[ev].all :
    (Matched(ev, i) /\ RuleOf(ev, i).action_type = "send_email")
    => SendEmailAsStated(ev, i)

\* C14, for an event that carries a record: there the statement holds.
C14_HoldsWithARecord ==
  \A ev \in DOMAIN calls : \A i \in DOMAIN calls[ev].all :
    (/\ Matched(ev, i) /\ RuleOf(ev, i).action_type = "send_email"
     /\ calls[ev].data.defined)
    => SendEmailAsStated(ev, i)

\* C14: an event without payload, a rule that mails the customer: no
\* recipient is resolved, and a failure is reported instead of a skip.
C14_FailureInsteadOfSkip ==
  \E ev \in DOMAIN calls : \E i \in DOMAIN calls[ev].all :
    /\ Matched(ev, i) /\ RuleOf(ev, i).action_type = "send_email"
    /\ ~calls[ev].data.defined
    /\ RuleOf(ev, i).action_config.email_recipient \in {Undefined, "customer"}
    /\ ReportedFailure(ev, i) /\ ~ReportedSkip(ev, i)

\* The payload is a job/estimate record: it is there and it carries an
\* estimate number.
JobShaped(data) == data.defined /\ data.hasEstimateNumber

UpdateInventoryAsStated(ev, i) ==
  IF JobShaped(calls[ev].data)
  THEN Invoked(ev, i)
  ELSE ~Invoked(ev, i) /\ ReportedSkip(ev, i) /\ ~ReportedFailure(ev, i)

\* C15: for a matched update_inventory rule the deduct-inventory handler is
\* invoked exactly when the payload is a job/estimate record; for a bare
\* customer record and for no payload at all it is not called and a skip is
\* reported, not a failure.
C15_InventoryExactlyForAJob ==
  \A ev \in DOMAIN calls : \A i \in DOMAIN calls[ev].all :
    (Matched(ev, i) /\ RuleOf(ev, i).action_type = "update_inventory")
    => UpdateInventoryAsStated(ev, i)

\* C15, for an event that carries a record: there the statement holds.
C15_HoldsWithARecord ==
  \A ev \in DOMAIN calls : \A i \in DOMAIN calls[ev].all :
    (/\ Matched(ev, i) /\ RuleOf(ev, i).action_type = "update_inventory"
     /\ calls[ev].data.defined)
    => UpdateInventoryAsStated(ev, i)

\* C15: an event without payload, and a failure is reported for the
\* update_inventory rule instead of a skip.
C15_FailureInsteadOfSkip ==
  \E ev \in DOMAIN calls : \E i \in DOMAIN calls[ev].all :
    /\ Matched(ev, i) /\ RuleOf(ev, i).action_type = "update_inventory"
    /\ ~calls[ev].data.defined
    /\ ~Invoked(ev, i) /\ ReportedFailure(ev, i) /\ ~ReportedSkip(ev, i)

-----------------------------------------------------------------------------
(* More claims about dispatch, checked under Spec *)

Invocations(ev, idx) ==
  {p \in DOMAIN trace :
     trace[p].kind = "invoke" /\ trace[p].ev = ev /\ trace[p].idx = idx}

\* C16: handlers are never retried: for each processed event and each rule
\* the handler (or fetch) is called at most once, also when the call fails,
\* and a delayed action runs at most once.
C16_NeverRetried ==
  \A ev \in DOMAIN calls : \A i \in DOMAIN calls[ev].all :
    /\ Cardinality(Invocations(ev, i)) <= 1
    /\ Cardinality({p \in DOMAIN trace :
                      trace[p].kind = "fire" /\ trace[p].ev = ev
                      /\ trace[p].idx = i}) <= 1
    /\ HandlerOutcome(ev, i, {"threw", "rejected"})
         => Cardinality(Invocations(ev, i)) = 1

\* C16's case: one handler threw, another one's promise was rejected, both
\* failures are reported, nothing is pending any more, and each handler was
\* called once.
C16_Witness ==
  \E ev \in DOMAIN calls : \E i, j \in DOMAIN calls[ev].all :
    /\ HandlerOutcome(ev, i, {"threw"}) /\ ReportedFailure(ev, i)
    /\ HandlerOutcome(ev, j, {"rejected"}) /\ ReportedFailure(ev, j)
    /\ awaiting = {} /\ timers = {}
    /\ Cardinality(Invocations(ev, i)) = 1
    /\ Cardinality(Invocations(ev, j)) = 1

-----------------------------------------------------------------------------
(* Claims about replacePlaceholders, checked under SpecReplace: the texts *)
(* it returned are the title and description the handler was called with  *)

\* What each token stands for, as the specification words it; nothing when
\* the event carries no data.
StatedValue(name, data) ==
  CASE name = "customer_name" ->
         IF data.customer_name # <<>> THEN data.customer_name ELSE data.name
    [] name = "customer_address" ->
         IF data.customer_address # <<>> THEN data.customer_address
         ELSE data.address
    [] name = "job_number" -> data.estimateNumber
    [] OTHER ->
         IF data.finalQuote = UndefNum THEN <<>> ELSE <<ToFixed2(data.finalQuote)>>

FixedSet == {Tokens[k] : k \in DOMAIN Tokens}

\* One pass over the template: each token of the fixed set gives way to its
\* value, everything else is copied.
RECURSIVE StatedSubstitution(_, _)
StatedSubstitution(text, data) ==
  IF text = <<>> THEN <<>>
  ELSE IF Len(text) >= 3 /\ text[1] = "[" /\ text[2] \in FixedSet /\ text[3] = "]"
  THEN StatedValue(text[2], data)
         \o StatedSubstitution(SubSeq(text, 4, Len(text)), data)
  ELSE <<Head(text)>> \o StatedSubstitution(Tail(text), data)

\* Every bracket of the text belongs to a token of the fixed set.
RECURSIVE OnlyFixedTokens(_)
OnlyFixedTokens(text) ==
  IF text = <<>> THEN TRUE
  ELSE IF Len(text) >= 3 /\ text[1] = "[" /\ text[2] \in FixedSet /\ text[3] = "]"
  THEN OnlyFixedTokens(SubSeq(text, 4, Len(text)))
  ELSE Head(text) \notin {"[", "]"} /\ OnlyFixedTokens(Tail(text))

\* A value as plain text: no bracket and no dollar sign in it.
Plain(value) == \A k \in DOMAIN value : value[k] \notin {"[", "]", "$&", "$$", "$"}

PlainData(data) == \A name \in FixedSet : Plain(StatedValue(name, data))

\* C17: in a template made of the four tokens and plain text, every
\* occurrence of a token is replaced by the value resolved from the event
\* data (nested customer record first, then the top level), and by nothing
\* when the value is absent.
C17_TokensReplacedByTheirValues ==
  \A ev \in DOMAIN calls : \A i \in DOMAIN calls[ev].all :
    (/\ Matched(ev, i) /\ calls[ev].data.defined
     /\ OnlyFixedTokens(RuleOf(ev, i).action_config.task_title))
    => \A args \in InvokeArgs(ev, i) :
         /\ args[1] = StatedSubstitution(RuleOf(ev, i).action_config.task_title,
                                         calls[ev].data)
         /\ args[2] = StatedSubstitution(RuleOf(ev, i).action_config.task_description,
                                         calls[ev].data)

\* C17, for values that are plain text: there the statement holds.
C17_HoldsForPlainValues ==
  \A ev \in DOMAIN calls : \A i \in DOMAIN calls[ev].all :
    (/\ Matched(ev, i) /\ calls[ev].data.defined /\ PlainData(calls[ev].data)
     /\ OnlyFixedTokens(RuleOf(ev, i).action_config.task_title))
    => \A args \in InvokeArgs(ev, i) :
         /\ args[1] = StatedSubstitution(RuleOf(ev, i).action_config.task_title,
                                         calls[ev].data)
         /\ args[2] = StatedSubstitution(RuleOf(ev, i).action_config.task_description,
                                         calls[ev].data)

\* C17: the specification's example, "[customer_name] - [job_number]" gives
\* "Acme - 1042", and "Acme - " without a job number.
C17_TheExample ==
  \E ev \in DOMAIN calls : \E i \in DOMAIN calls[ev].all :
    /\ RuleOf(ev, i).action_config.task_title =
         Token("customer_name") \o <<" - ">> \o Token("job_number")
    /\ \E args \in InvokeArgs(ev, i) :
         \/ calls[ev].data = JobRecord /\ args[1] = <<"Acme", " - ", "1042">>
         \/ calls[ev].data.estimateNumber = <<>> /\ args[1] = <<"Acme", " - ">>

\* C17: a dollar pattern in the customer's name is rewritten on its way
\* into the text.
C17_DollarPatternRewritten ==
  \E ev \in DOMAIN calls : \E i \in DOMAIN calls[ev].all :
    /\ calls[ev].data.name = <<"Cash ", "$$", " Carry">>
    /\ RuleOf(ev, i).action_config.task_title =
         <<"Hi ">> \o Token("customer_name") \o Token("customer_name")
    /\ \E args \in InvokeArgs(ev, i) :
         args[1] = <<"Hi ", "Cash ", "$", " Carry", "Cash ", "$", " Carry">>

\* The text holds a token of the fixed set.
HoldsFixedToken(text) ==
  \E k \in 1..(Len(text) - 2) :
    text[k] = "[" /\ text[k + 1] \in FixedSet /\ text[k + 2] = "]"

\* C18: every bracketed token outside the fixed set of four, and all other
\* text of the template, is in the output unchanged: with values that are
\* plain text, the output is the template with nothing but its tokens of
\* the fixed set replaced.
C18_OtherTextUnchanged ==
  \A ev \in DOMAIN calls : \A i \in DOMAIN calls[ev].all :
    (Matched(ev, i) /\ calls[ev].data.defined /\ PlainData(calls[ev].data))
    => \A args \in InvokeArgs(ev, i) :
         args[1] = StatedSubstitution(RuleOf(ev, i).action_config.task_title,
                                      calls[ev].data)

\* C18, where replacing the tokens of the template leaves no token of the
\* fixed set behind: there the statement holds, [company_name] included.
C18_HoldsWhereNoTokenIsFormed ==
  \A ev \in DOMAIN calls : \A i \in DOMAIN calls[ev].all :
    (/\ Matched(ev, i) /\ calls[ev].data.defined /\ PlainData(calls[ev].data)
     /\ ~HoldsFixedToken(StatedSubstitution(RuleOf(ev, i).action_config.task_title,
                                            calls[ev].data)))
    => \A args \in InvokeArgs(ev, i) :
         args[1] = StatedSubstitution(RuleOf(ev, i).action_config.task_title,
                                      calls[ev].data)

\* C18: the template "[" "[customer_name]" "job_number]" and a customer
\* without a name: the text around the token is taken for [job_number] by
\* a later pass and does not reach the output.
C18_OtherTextTakenForAToken ==
  \E ev \in DOMAIN calls : \E i \in DOMAIN calls[ev].all :
    /\ RuleOf(ev, i).action_config.task_title =
         <<"[">> \o Token("customer_name") \o <<"job_number", "]">>
    /\ calls[ev].data = EmptyRecord
    /\ \E args \in InvokeArgs(ev, i) : args[1] = <<>>

\* C18: [company_name] reaches the output as it stands.
C18_CompanyNameUntouched ==
  \E ev \in DOMAIN calls : \E i \in DOMAIN calls[ev].all :
    /\ calls[ev].data = CustomerRecord
    /\ \E args \in InvokeArgs(ev, i) :
         args[1] = Token("company_name") \o <<" for ", "Acme">>

\* C19: replacePlaceholders is total: for every template and every event
\* data, an absent payload included, it returns a text, so that every
\* matched create_task rule with a title gets its handler called.
C19_Total ==
  \A ev \in DOMAIN calls : \A i \in DOMAIN calls[ev].all :
    (Matched(ev, i) /\ RuleOf(ev, i).action_config.task_title # <<>>)
    => /\ Invoked(ev, i)
       /\ ~replacePlaceholders(RuleOf(ev, i).action_config.task_title,
                               calls[ev].data).threw

\* C19, for an event that carries a record, an empty one included: there
\* the statement holds.
C19_HoldsWithARecord ==
  \A ev \in DOMAIN calls : \A i \in DOMAIN calls[ev].all :
    (/\ Matched(ev, i) /\ RuleOf(ev, i).action_config.task_title # <<>>
     /\ calls[ev].data.defined)
    => /\ Invoked(ev, i)
       /\ ~replacePlaceholders(RuleOf(ev, i).action_config.task_title,
                               calls[ev].data).threw

\* C19: an event without payload, a create_task rule with a title: the
\* substitution raises, the handler is not called and a failure is reported.
C19_RaisedWithoutPayload ==
  \E ev \in DOMAIN calls : \E i \in DOMAIN calls[ev].all :
    /\ Matched(ev, i) /\ ~calls[ev].data.defined
    /\ RuleOf(ev, i).action_config.task_title # <<>>
    /\ ~Invoked(ev, i) /\ ReportedFailure(ev, i)

\* C20: processing events leaves the rule set unchanged: after any sequence
\* of processAutomations calls and of immediate or delayed action
\* executions, the rule set is, rule by rule and in the same order, the one
\* each call was given, and a pending delayed action holds the rule as it is
\* in the rule set.
C20_RuleSetUnchanged ==
  /\ \A ev \in DOMAIN calls : calls[ev].all = automations
  /\ \A t \in timers : t.automation = automations[t.idx]

\* C20's case: a call on two rules, one executed at once and settled, one
\* executed by its timer, and the rule set is still the one the call got.
C20_Witness ==
  \E ev \in DOMAIN calls : \E i, j \in DOMAIN calls[ev].all :
    /\ ~IsDelayed(RuleOf(ev, i)) /\ HandlerOutcome(ev, i, {"resolved", "rejected"})
    /\ IsDelayed(RuleOf(ev, j)) /\ Fired(ev, j) /\ Invoked(ev, j)
    /\ automations = calls[ev].all
    /\ automations[i].is_enabled /\ automations[j].is_enabled

\* The promise of rule idx's handler in call ev has not settled.
HandlerPending(ev, idx) == \E w \in awaiting : w.ev = ev /\ w.idx = idx

\* Call ev returned to its caller.
Returned(ev) ==
  \E p \in DOMAIN trace : trace[p].kind = "return" /\ trace[p].ev = ev

\* No condition check of call ev raises.
ChecksAreSafe(ev) ==
  \A k \in DOMAIN calls[ev].all :
    (calls[ev].all[k].is_enabled
     /\ calls[ev].all[k].trigger_type = calls[ev].triggerType)
    => ShouldRun(calls[ev].all[k], calls[ev].triggerType, calls[ev].data)
         # "TypeError"

\* C21: zero-delay rules are dispatched independently of each other's
\* latency: while the promise of a matched zero-delay rule's handler has not
\* settled, every later matched rule of the pass has been dispatched, its
\* handler has been invoked, and processAutomations has returned.
C21_LatencyDoesNotHoldUpLaterRules ==
  \A ev \in DOMAIN calls : \A i, j \in DOMAIN calls[ev].all :
    (/\ i < j /\ Matched(ev, i) /\ Matched(ev, j)
     /\ ~IsDelayed(RuleOf(ev, i)) /\ HandlerPending(ev, i))
    => /\ Ran(ev, j)
       /\ (~IsDelayed(RuleOf(ev, j)) /\ CallsHandler(RuleOf(ev, j), calls[ev].data))
            => Invoked(ev, j)
       /\ ChecksAreSafe(ev) => Returned(ev)

\* C21's case: the first rule's handler is still pending, the second rule's
\* handler was invoked and has settled, and the call has returned.
C21_Witness ==
  \E ev \in DOMAIN calls : \E i, j \in DOMAIN calls[ev].all :
    /\ i < j /\ Matched(ev, i) /\ Matched(ev, j)
    /\ ~IsDelayed(RuleOf(ev, i)) /\ HandlerPending(ev, i)
    /\ Invoked(ev, j) /\ HandlerOutcome(ev, j, {"resolved"})
    /\ Returned(ev)

\* Where rule idx of call ev was dispatched in the trace.
RanAt(ev, idx) ==
  {p \in DOMAIN trace : /\ trace[p].kind = "log" /\ trace[p].what = "running"
                        /\ trace[p].ev = ev /\ trace[p].idx = idx}

\* C22: a matched rule with a positive delay does not block the pass: every
\* later matched rule of the pass is dispatched, and processAutomations
\* comes back to its caller, before the delayed rule's handler is invoked.
C22_DelayDoesNotBlockThePass ==
  \A ev \in DOMAIN calls : \A i \in DOMAIN calls[ev].all :
    (Matched(ev, i) /\ IsDelayed(RuleOf(ev, i)))
    => /\ \A j \in DOMAIN calls[ev].all :
            (i < j /\ Matched(ev, j))
            => /\ Ran(ev, j)
               /\ \A p \in Invocations(ev, i) : \A q \in RanAt(ev, j) : q < p
       /\ ChecksAreSafe(ev) => Returned(ev)
       /\ \A p \in Invocations(ev, i) : EndOfCall(ev) < p

\* C22's case: a delayed rule followed by another matched rule; the call
\* returned, and later the timer fired and the delayed handler was invoked.
C22_Witness ==
  \E ev \in DOMAIN calls : \E i, j \in DOMAIN calls[ev].all :
    /\ i < j /\ Matched(ev, i) /\ Matched(ev, j)
    /\ IsDelayed(RuleOf(ev, i)) /\ Fired(ev, i) /\ Invoked(ev, i)
    /\ Ran(ev, j) /\ Returned(ev)

-----------------------------------------------------------------------------
(* More claims about executeAction, checked under SpecAction *)

Wired ==
  {"create_task", "send_email", "add_to_schedule", "update_inventory", "webhook"}

\* The kind-specific precondition as the specification words it.
StatedPrecondition(rule, data) ==
  CASE rule.action_type = "webhook" -> rule.action_config.url \notin {Undefined, ""}
    [] rule.action_type = "create_task" ->
         StatedSubstitution(rule.action_config.task_title, data) # <<>>
    [] rule.action_type = "send_email" ->
         StatedEmailPrecondition(rule.action_config, data)
    [] rule.action_type = "update_inventory" -> JobShaped(data)
    [] OTHER -> TRUE

\* C23: every matched rule whose action kind is create_task, send_email,
\* add_to_schedule, update_inventory or webhook, and whose precondition
\* holds (none for add_to_schedule), calls through to its handler: a matched
\* add_to_schedule rule invokes its handler for every payload.
C23_CallsThrough ==
  \A ev \in DOMAIN calls : \A i \in DOMAIN calls[ev].all :
    (/\ Matched(ev, i) /\ RuleOf(ev, i).action_type \in Wired
     /\ StatedPrecondition(RuleOf(ev, i), calls[ev].data))
    => Invoked(ev, i)

\* C23, for a job record that carries its customer: there the statement
\* holds.
C23_HoldsForAJobWithItsCustomer ==
  \A ev \in DOMAIN calls : \A i \in DOMAIN calls[ev].all :
    (/\ Matched(ev, i) /\ RuleOf(ev, i).action_type \in Wired
     /\ calls[ev].data.defined /\ calls[ev].data.hasCustomer
     /\ StatedPrecondition(RuleOf(ev, i), calls[ev].data))
    => Invoked(ev, i)

\* C23: a customer record and a matched add_to_schedule rule: the handler
\* is not invoked, and nothing is reported.
C23_ScheduleSkippedForACustomer ==
  \E ev \in DOMAIN calls : \E i \in DOMAIN calls[ev].all :
    /\ Matched(ev, i) /\ RuleOf(ev, i).action_type = "add_to_schedule"
    /\ calls[ev].data = CustomerRecord
    /\ ~Invoked(ev, i) /\ Reports(ev, i) = <<>>

\* The execution of rule idx's action in call ev has come to its end.
Ended(ev, idx) == Executed(ev, idx) /\ ~HandlerPending(ev, idx)

\* A report that tells success, a skip (the no-op of a kind without handler
\* counted as one) or a failure.
IsOutcome(e) ==
  \/ e.kind = "log" /\ e.what \in SuccessLines \cup NoOpLines
  \/ e.kind = "warn" /\ e.what \in SkipLines
  \/ e.kind = "error"

\* C24: every executed action reports exactly one outcome, a success, a
\* skip or a failure: no execution ends without a report, and none reports
\* success unless its handler was called and succeeded.
C24_ExactlyOneOutcome ==
  \A ev \in DOMAIN calls : \A i \in DOMAIN calls[ev].all :
    (Matched(ev, i) /\ Ended(ev, i))
    => /\ Len(Reports(ev, i)) = 1
       /\ IsOutcome(Reports(ev, i)[1])
       /\ ReportedSuccess(ev, i) => HandlerOutcome(ev, i, {"returned", "resolved"})

\* C24, the part the code keeps: never more than one report, each of them
\* an outcome, and no success unless the handler was called and succeeded.
C24_AtMostOneAndNoFalseSuccess ==
  \A ev \in DOMAIN calls : \A i \in DOMAIN calls[ev].all :
    Matched(ev, i)
    => /\ Len(Reports(ev, i)) <= 1
       /\ \A p \in DOMAIN Reports(ev, i) : IsOutcome(Reports(ev, i)[p])
       /\ ReportedSuccess(ev, i)
            => (/\ HandlerOutcome(ev, i, {"returned", "resolved"})
                /\ ~HandlerOutcome(ev, i, {"threw", "rejected"}))

\* C24: a create_task rule without title has been executed, nothing is
\* pending, and there is no report about it.
C24_EndedWithoutReport ==
  \E ev \in DOMAIN calls : \E i \in DOMAIN calls[ev].all :
    /\ Matched(ev, i) /\ RuleOf(ev, i).action_type = "create_task"
    /\ RuleOf(ev, i).action_config.task_title = <<>>
    /\ Ended(ev, i) /\ awaiting = {}
    /\ Reports(ev, i) = <<>>

\* The text holds a token with one of the names.
HoldsTokenOf(text, names) ==
  \E k \in 1..(Len(text) - 2) :
    text[k] = "[" /\ text[k + 1] \in names /\ text[k + 2] = "]"

\* C25: every placeholder the editor advertises for an e-mail,
\* [customer_name], [job_number], [job_value] and [company_name], is
\* substituted in the subject and body handed to the send-email handler:
\* none of them reaches the handler as a token.
C25_AdvertisedPlaceholdersSubstituted ==
  \A ev \in DOMAIN calls : \A i \in DOMAIN calls[ev].all :
    (Matched(ev, i) /\ RuleOf(ev, i).action_type = "send_email")
    => \A args \in InvokeArgs(ev, i) :
         /\ ~HoldsTokenOf(args[2], EmailPlaceholders)
         /\ ~HoldsTokenOf(args[3], EmailPlaceholders)

\* C25, for the three advertised placeholders that replacePlaceholders
\* knows: none of them reaches the handler as a token.
C25_HoldsForTheKnownThree ==
  \A ev \in DOMAIN calls : \A i \in DOMAIN calls[ev].all :
    (Matched(ev, i) /\ RuleOf(ev, i).action_type = "send_email")
    => \A args \in InvokeArgs(ev, i) :
         /\ ~HoldsTokenOf(args[2], EmailPlaceholders \ {"company_name"})
         /\ ~HoldsTokenOf(args[3], EmailPlaceholders \ {"company_name"})

\* C25: the send-email handler was called with [company_name] standing in
\* the subject, next to the job number that was substituted.
C25_CompanyNameReachesTheHandler ==
  \E ev \in DOMAIN calls : \E i \in DOMAIN calls[ev].all :
    /\ calls[ev].data = JobRecord
    /\ RuleOf(ev, i).action_type = "send_email"
    /\ \E args \in InvokeArgs(ev, i) :
         args[2] = Token("company_name") \o <<" quote ", "1042">>

-----------------------------------------------------------------------------
(* More claims about matching, checked under SpecMatch *)

\* C26: the job value bounds also narrow job_status_updated rules: a rule
\* whose to_status equals the event's new status matches exactly when no
\* configured non-zero job_value_min exceeds the job value and no configured
\* non-zero job_value_max is below it; a rule whose to_status differs from
\* the new status never matches, whatever the bounds.
C26_BoundsNarrowStatusRules ==
  \A ev \in DOMAIN calls : \A i \in DOMAIN calls[ev].all :
    LET rule == RuleOf(ev, i)
        data == calls[ev].data
    IN  (/\ calls[ev].triggerType = "job_status_updated"
         /\ rule.is_enabled /\ rule.trigger_type = "job_status_updated")
        => IF data.defined /\ data.status = rule.trigger_config.to_status
           THEN Ran(ev, i) <=> StatedBoundsHold(rule.trigger_config, data)
           ELSE ~Ran(ev, i)

\* C26's case: a 'sold' event worth 500.01 and two rules for 'sold', one
\* with a maximum of 500.00 that is not dispatched and one with a minimum of
\* 500.00 that is.
C26_Witness ==
  \E ev \in DOMAIN calls : \E i, j \in DOMAIN calls[ev].all :
    /\ calls[ev].triggerType = "job_status_updated"
    /\ calls[ev].data.status = "sold" /\ calls[ev].data.finalQuote = 50001
    /\ RuleOf(ev, i).trigger_config.to_status = "sold"
    /\ RuleOf(ev, i).trigger_config.job_value_max = 50000
    /\ RuleOf(ev, i).is_enabled /\ ~Ran(ev, i)
    /\ RuleOf(ev, j).trigger_config.to_status = "sold"
    /\ RuleOf(ev, j).trigger_config.job_value_min = 50000
    /\ Ran(ev, j)

-----------------------------------------------------------------------------
(* Claims about order and about scheduled actions, checked under Spec *)

\* C27: within one pass the order of execution follows the rule set: for
\* two matched zero-delay rules A and B, A before B in the rule set, A is
\* dispatched before B and A's handler is invoked before B's.
C27_OrderFollowsTheRuleSet ==
  \A ev \in DOMAIN calls : \A i, j \in DOMAIN calls[ev].all :
    (/\ i < j /\ Matched(ev, i) /\ Matched(ev, j)
     /\ ~IsDelayed(RuleOf(ev, i)) /\ ~IsDelayed(RuleOf(ev, j)))
    => /\ Ran(ev, i) /\ Ran(ev, j)
       /\ \A p \in RanAt(ev, i) : \A q \in RanAt(ev, j) : p < q
       /\ \A p \in Invocations(ev, i) : \A q \in Invocations(ev, j) : p < q

\* C27's case: two matched zero-delay rules of different action kinds, both
\* handlers invoked, the first rule's first.
C27_Witness ==
  \E ev \in DOMAIN calls : \E i, j \in DOMAIN calls[ev].all :
    /\ i < j /\ Matched(ev, i) /\ Matched(ev, j)
    /\ ~IsDelayed(RuleOf(ev, i)) /\ ~IsDelayed(RuleOf(ev, j))
    /\ RuleOf(ev, i).action_type # RuleOf(ev, j).action_type
    /\ \E p \in Invocations(ev, i) : \E q \in Invocations(ev, j) : p < q

-----------------------------------------------------------------------------
(* Claims about the editor, checked under SpecEditor *)

\* The fields of a config that carry a value.
FieldsSet(config, empty) == {f \in DOMAIN config : config[f] # empty[f]}

\* C28: after any sequence of editor operations, changes of the trigger
\* kind and action kind after their fields were filled in included, the
\* automation handed to onSave carries in trigger_config and action_config
\* only fields of its current trigger kind and action kind, and the delay.
C28_OnlyFieldsOfTheCurrentKinds ==
  \A k \in DOMAIN onSaveCalls :
    LET a == onSaveCalls[k]
    IN  /\ FieldsSet(a.trigger_config, EmptyTriggerConfig)
             \subseteq TriggerFields(a.trigger_type)
        /\ FieldsSet(a.action_config, EmptyActionConfig) \subseteq ActionFields(a)

\* C28, what does hold of the automation handed over: what the form
\* requires of the current kinds is filled in.
C28_RequiredFieldsAreFilled ==
  \A k \in DOMAIN onSaveCalls : RequiredFilled(onSaveCalls[k])

\* C28: a new_customer / send_sms automation was handed to onSave with the
\* to_status of the trigger kind and the url of the action kind it had
\* before.
C28_StaleFieldsSaved ==
  \E k \in DOMAIN onSaveCalls :
    /\ onSaveCalls[k].trigger_type = "new_customer"
    /\ onSaveCalls[k].trigger_config.to_status = "sold"
    /\ onSaveCalls[k].action_type = "send_sms"
    /\ onSaveCalls[k].action_config.url = "https://hook.example"

-----------------------------------------------------------------------------
(* Claims about scheduled actions, checked under SpecSchedule *)

Fires(ev, idx) ==
  {p \in DOMAIN trace :
     trace[p].kind = "fire" /\ trace[p].ev = ev /\ trace[p].idx = idx}

Arms(ev, idx) ==
  {p \in DOMAIN trace :
     trace[p].kind = "arm" /\ trace[p].ev = ev /\ trace[p].idx = idx}

\* The arguments the handler is called with when the rule and the payload
\* are those of call ev.
ArgsOfTheEvent(ev, idx) ==
  LET did == ExecuteAction(RuleOf(ev, idx), ev, idx, calls[ev].data, "ok")
  IN  {did.trace[p].args : p \in {q \in DOMAIN did.trace :
                                    did.trace[q].kind = "invoke"}}

\* A delayed action of call ev, scheduled for rule idx, runs at most once,
\* is pending until it has run, and runs with the rule and the payload of
\* its event, whatever has become of the rule set since.
ScheduledOnceWithItsEvent(ev, idx) ==
  /\ Cardinality(Arms(ev, idx)) = 1
  /\ Cardinality(Fires(ev, idx)) <= 1
  /\ Fired(ev, idx) <=> ~TimerPending(ev, idx)
  /\ Fired(ev, idx) =>
       /\ Cardinality(Invocations(ev, idx)) = 1
       /\ InvokeArgs(ev, idx) = ArgsOfTheEvent(ev, idx)
       /\ \A p \in Fires(ev, idx) : \A q \in Invocations(ev, idx) : p < q

\* The delayed action does not run before the rule's delay has passed.
NotBeforeItsDelay(ev, idx) ==
  \A p \in Fires(ev, idx) : \A q \in Arms(ev, idx) :
    trace[p].at - trace[q].at
      >= RuleOf(ev, idx).action_config.delay_minutes * TicksPerMinute

\* C29: a rule's is_enabled flag and conditions are evaluated once, when
\* the event is processed: a delayed action, once scheduled, fires once and
\* after its delay, with the rule and the payload of that event, also when
\* the rule has been disabled, edited or deleted or further events have
\* been processed in the meantime.
C29_ScheduledActionKeepsItsEvent ==
  \A ev \in DOMAIN calls : \A i \in DOMAIN calls[ev].all :
    (Matched(ev, i) /\ IsDelayed(RuleOf(ev, i)))
    => ScheduledOnceWithItsEvent(ev, i) /\ NotBeforeItsDelay(ev, i)

\* C29, the delay apart: the action runs once, with the rule and payload of
\* its event, whatever has become of the rule set.
C29_HoldsApartFromTheDelay ==
  \A ev \in DOMAIN calls : \A i \in DOMAIN calls[ev].all :
    (Matched(ev, i) /\ IsDelayed(RuleOf(ev, i)))
    => ScheduledOnceWithItsEvent(ev, i)

\* C29, for the delays whose milliseconds fit the timer's 32 bits: there
\* the statement holds.
C29_HoldsBelowTheTimerRange ==
  \A ev \in DOMAIN calls : \A i \in DOMAIN calls[ev].all :
    (/\ Matched(ev, i) /\ IsDelayed(RuleOf(ev, i))
     /\ DelayTicks(RuleOf(ev, i)) < 2^26)
    => ScheduledOnceWithItsEvent(ev, i) /\ NotBeforeItsDelay(ev, i)

\* C29: the rule was scheduled for five minutes, then retitled, and a
\* further event was processed; after five minutes its action ran with the
\* title and the customer of the first event.
C29_RanWithTheRuleOfItsEvent ==
  /\ Len(calls) = 2
  /\ \E i \in DOMAIN calls[1].all :
    /\ RuleOf(1, i).action_config.delay_minutes = 5
    /\ calls[1].data = CustomerRecord /\ calls[2].data = JobRecord
    /\ i \in DOMAIN automations /\ automations[i] = Retitled(RuleOf(1, i))
    /\ calls[2].all = automations
    /\ Fired(1, i) /\ InvokeArgs(1, i) = {<< <<"Call ", "Acme">>, <<>> >>}
    /\ now >= 5 * TicksPerMinute

\* C29: the action of a rule scheduled for 35795 minutes has run within the
\* first five minutes.
C29_RanLongBeforeItsDelay ==
  \E ev \in DOMAIN calls : \E i \in DOMAIN calls[ev].all :
    /\ RuleOf(ev, i).action_config.delay_minutes = 35795
    /\ Fired(ev, i) /\ Invoked(ev, i)
    /\ now <= 5 * TicksPerMinute

-----------------------------------------------------------------------------
(* Claims about the passes of replacePlaceholders, checked under SpecReplace *)

\* No value of the payload holds a dollar pattern.
NoDollar(data) ==
  \A name \in FixedSet :
    \A k \in DOMAIN StatedValue(name, data) :
      StatedValue(name, data)[k] \notin {"$&", "$$", "$"}

\* Some value of the payload holds the text of a token of the fixed set.
ValueHoldsToken(data) ==
  \E name \in FixedSet : HoldsFixedToken(StatedValue(name, data))

C30_HoldsWhereNoValueHoldsAToken ==
  \A ev \in DOMAIN calls : \A i \in DOMAIN calls[ev].all :
    (/\ Matched(ev, i) /\ calls[ev].data.defined /\ NoDollar(calls[ev].data)
     /\ ~ValueHoldsToken(calls[ev].data)
     /\ OnlyFixedTokens(RuleOf(ev, i).action_config.task_title))
    => \A args \in InvokeArgs(ev, i) :
         args[1] = StatedSubstitution(RuleOf(ev, i).action_config.task_title,
                                      calls[ev].data)

-----------------------------------------------------------------------------
(* Claims about the timer's range, checked under Spec *)

\* The arm entry of the timer t.
ArmOf(t) ==
  CHOOSE p \in DOMAIN trace :
    trace[p].kind = "arm" /\ trace[p].ev = t.ev /\ trace[p].idx = t.idx

\* C31: for every positive delay_minutes the editor accepts, the timer is
\* armed with delay_minutes * 60 * 1000 milliseconds, and that duration is
\* within the host timer's signed 32-bit range (below 2^31 ms, 2^26 ticks),
\* so that the timer is due after exactly that duration, neither wrapped
\* nor cut.
C31_DelayWithinTheTimerRange ==
  /\ \A p \in DOMAIN trace :
       trace[p].kind = "arm" =>
         /\ trace[p].ticks =
              RuleOf(trace[p].ev, trace[p].idx).action_config.delay_minutes
                * TicksPerMinute
         /\ trace[p].ticks < 2^26
  /\ \A t \in timers : t.due - trace[ArmOf(t)].at = DelayTicks(t.automation)

\* C31, the first half: the duration handed to setTimeout is
\* delay_minutes * 60 * 1000 milliseconds, and for a delay of five minutes
\* the timer is due after just that.
C31_HoldsForTheDurationPassed ==
  /\ \A p \in DOMAIN trace :
       trace[p].kind = "arm" =>
         trace[p].ticks =
           RuleOf(trace[p].ev, trace[p].idx).action_config.delay_minutes
             * TicksPerMinute
  /\ \A t \in timers :
       DelayTicks(t.automation) < 2^26
       => t.due - trace[ArmOf(t)].at = DelayTicks(t.automation)

\* C31: a timer armed for 35795 minutes, 2147700000 milliseconds, is due at
\* the instant it was armed.
C31_DueAtOnce ==
  \E t \in timers :
    /\ t.automation.action_config.delay_minutes = 35795
    /\ DelayTicks(t.automation) >= 2^26
    /\ t.due = trace[ArmOf(t)].at

-----------------------------------------------------------------------------
(* Claims about the recipient of an e-mail, checked under SpecAction *)

\* The address the send-email handler was called with, for rule i of call ev.
CalledWith(ev, i) == {args[1] : args \in InvokeArgs(ev, i)}

\* The addresses found in the payload.
CustomerAddresses(data) == {data.customer_email, data.email} \ {Undefined, ""}

\* C32: the recipient follows the rule's email_recipient setting.  With
\* 'custom' the send-email handler is only called with the rule's
\* custom_email, not at all when that is empty, and never with the
\* customer's address; with 'team' it is called with the team address; with
\* 'customer' or no setting it is called with the customer's email, that of
\* the nested customer record when there is one, the top-level email
\* otherwise.  For an event that carries a record and a rule with a subject
\* the call is made whenever there is such an address.
C32_RecipientFollowsTheSetting ==
  \A ev \in DOMAIN calls : \A i \in DOMAIN calls[ev].all :
    (Matched(ev, i) /\ RuleOf(ev, i).action_type = "send_email")
    => LET cfg == RuleOf(ev, i).action_config
           data == calls[ev].data
       IN  /\ CalledWith(ev, i) \subseteq {<<StatedRecipient(cfg, data)>>}
           /\ cfg.email_recipient = "custom" =>
                /\ CalledWith(ev, i) \subseteq {<<cfg.custom_email>>}
                /\ cfg.custom_email \in {Undefined, ""} => ~Invoked(ev, i)
                /\ \A a \in CustomerAddresses(data) : <<a>> \notin CalledWith(ev, i)
           /\ cfg.email_recipient = "team" =>
                CalledWith(ev, i) \subseteq {<<"team@example.com">>}
           /\ cfg.email_recipient \in {"customer", Undefined} =>
                CalledWith(ev, i) \subseteq
                  {<<IF data.customer_email \notin {Undefined, ""}
                     THEN data.customer_email ELSE data.email>>}
           /\ (/\ data.defined /\ cfg.email_subject # <<>>
               /\ StatedRecipient(cfg, data) # "")
              => CalledWith(ev, i) = {<<StatedRecipient(cfg, data)>>}

\* C32: a rule set to 'custom' without an address met a customer with an
\* address and called nothing; a rule set to 'custom' was called with its
\* own address for that customer; and a job with an address in its customer
\* record and another at the top level was mailed at the former.
C32_Witness ==
  /\ \E ev \in DOMAIN calls : \E i \in DOMAIN calls[ev].all :
       /\ Matched(ev, i) /\ RuleOf(ev, i).action_type = "send_email"
       /\ RuleOf(ev, i).action_config.email_recipient = "custom"
       /\ calls[ev].data = JobWithTwoEmails
       /\ RuleOf(ev, i).action_config.email_subject # <<>>
       /\ \/ /\ RuleOf(ev, i).action_config.custom_email \in {Undefined, ""}
             /\ ~Invoked(ev, i) /\ ReportedSkip(ev, i)
          \/ CalledWith(ev, i) = {<<"ops@example.com">>}
  /\ \E ev \in DOMAIN calls : \E i \in DOMAIN calls[ev].all :
       /\ Matched(ev, i) /\ RuleOf(ev, i).action_type = "send_email"
       /\ RuleOf(ev, i).action_config.email_recipient \in {"customer", Undefined}
       /\ \/ /\ calls[ev].data = JobWithTwoEmails
             /\ CalledWith(ev, i) = {<<"acme@example.com">>}
          \/ /\ calls[ev].data = JobWithTopLevelEmail
             /\ CalledWith(ev, i) = {<<"billing@example.com">>}

-----------------------------------------------------------------------------
(* Claims about handleSave, checked under SpecEditor *)

\* The calls of the owner's operation op that the k-th save made.
OwnerCallsOf(k, op) ==
  {j \in DOMAIN ownerCalls : ownerCalls[j].save = k /\ ownerCalls[j].op = op}

\* The k-th save called onUpdateAutomation once and onAddAutomation never
\* when its automation carried an id, and the other way round when not.
OneCallByTheId ==
  \A k \in DOMAIN onSaveCalls :
    LET updates == Cardinality(OwnerCallsOf(k, "onUpdateAutomation"))
        adds == Cardinality(OwnerCallsOf(k, "onAddAutomation"))
        id == ownerCalls[CHOOSE j \in DOMAIN ownerCalls : ownerCalls[j].save = k].id
    IN  /\ updates + adds = 1
        /\ id # UndefNum => updates = 1 /\ adds = 0
        /\ id = UndefNum => adds = 1 /\ updates = 0

\* Some call of the owner goes from pending to the outcome in this step.
Becomes(outcome) ==
  \E j \in DOMAIN ownerCalls :
    /\ ownerCalls[j].state = "pending"
    /\ ownerCalls'[j].state = outcome

\* A step of handleSave: the call of the owner, or what follows its await.
HandleSaveStep == ownerCalls' # ownerCalls

\* handleSave leaves the editor open when it calls the owner and when the
\* call fails, and closes it when the call has succeeded.
ClosedOnSuccessOnly ==
  HandleSaveStep =>
    /\ Becomes("resolved") => ~editor'.open
    /\ ~Becomes("resolved") => editor' = editor

\* C33: handleSave calls onUpdateAutomation exactly once and never
\* onAddAutomation when the saved automation carries an id, and
\* onAddAutomation exactly once and never onUpdateAutomation when it
\* carries none; it closes the editor only after that call has completed
\* successfully, and leaves it open when the call fails.
C33_OneCallThenCloseOnSuccess ==
  /\ []OneCallByTheId
  /\ [][ClosedOnSuccessOnly]_vars

\* C33: the save of a rule with an id has called onUpdateAutomation, the
\* call has failed, and the editor is still open.
C33_Witness ==
  /\ Len(ownerCalls) = 1
  /\ ownerCalls[1].op = "onUpdateAutomation" /\ ownerCalls[1].id = 1
  /\ ownerCalls[1].state = "rejected"
  /\ editor.open

\* C33: the save of a new rule has called onAddAutomation, the call has
\* succeeded, and the editor is closed.
C33_AddedAndClosed ==
  /\ Len(ownerCalls) = 1
  /\ ownerCalls[1].op = "onAddAutomation" /\ ownerCalls[1].id = UndefNum
  /\ ownerCalls[1].state = "resolved"
  /\ ~editor.open

====
